---- MODULE Spec2Model ----
(***************************************************************************)
(* Capture pipeline of openadapt-capture (openadapt_capture/recorder.py,   *)
(* openadapt_capture/utils.py, openadapt_capture/config.py).               *)
(*                                                                         *)
(* The host process runs record() on one thread, the readers (screen,      *)
(* window, keyboard listener, mouse listener, browser server/handler) and  *)
(* the router (process_events) as further threads, and one writer process  *)
(* per event kind (write_events).  All readers feed one inbox (event_q);   *)
(* the router is its only consumer and dispatches to the writer queues.    *)
(***************************************************************************)
EXTENDS Integers, Sequences, FiniteSets, TLC

\* ------------------------------------------------------------------------
\* Bounds of the model
\* ------------------------------------------------------------------------
\* events the readers may produce in one recording
MaxEvents == 4
\* key presses fed to on_press in the stop-sequence specification
MaxPresses == 4
\* events the readers produce in the reader-and-router specifications
MaxReads == 3

\* ------------------------------------------------------------------------
\* Program constants
\* ------------------------------------------------------------------------
\* recording.timestamp: the wall-clock anchor written by create_recording
RecordingTimestamp == 10

EVENT_TYPES == {"screen", "action", "window", "browser"}

WriterKinds == {"screen", "action", "window", "browser", "screen/video"}

Readers == {"window_event_reader", "browser_event_reader",
            "screen_event_reader", "keyboard_event_reader",
            "mouse_event_reader"}

Listeners == {"keyboard_event_reader", "mouse_event_reader"}

\* config.STOP_SEQUENCES default: list("oa.stop") and ctrl,ctrl,ctrl
SPECIAL_CHAR_STOP_SEQUENCES == << <<"ctrl", "ctrl", "ctrl">> >>

STOP_STRS == << <<"o", "a", ".", "s", "t", "o", "p">> >>

STOP_SEQUENCES == STOP_STRS \o SPECIAL_CHAR_STOP_SEQUENCES

\* the absent event (Python None) and the absent timestamp
NoTs == 0

NoEvent == [ts |-> 0, type |-> "none", id |-> 0, sts |-> 0, wts |-> 0, key |-> ""]

VARIABLES
    config,                       \* RECORD_* settings in force for the recording
    stop_sequences,               \* config.STOP_SEQUENCES
    perf,                         \* time.perf_counter() of the host process
    start_time,                   \* utils._start_time
    start_perf_counter,           \* utils._start_perf_counter
    last_timestamp,               \* last value get_timestamp() returned (history)
    event_q,                      \* the inbox
    write_q,                      \* writer queues, by kind
    rows,                         \* database rows by kind, in id order; frames for screen/video
    num_events,                   \* shared counters num_<kind>_events
    terminate_processing,         \* the terminate flag
    stop_sequence_detected,       \* module global set by on_press
    stop_sequence_indices,        \* progress index per stop sequence
    listener_raised,              \* the keyboard listener thread died in on_press
    readerPc,                     \* position of each reader thread
    pending,                      \* event a reader has stamped but not yet put
    started_event,                \* task_started_events, by task name
    brConn,                       \* browser connection handler: none / open / closed
    ws_server_instance,           \* the websocket server: init / serving / shutdown
    routerPc,                     \* position of process_events
    prev_screen_event,
    prev_window_event,
    prev_saved_screen_timestamp,
    prev_saved_window_timestamp,
    taken,                        \* events the router took from the inbox, in order (history)
    writerPc,                     \* position of each writer process
    recordPc,                     \* position of record()
    recorderPc,                   \* position of the Recorder context: in / joining / exited
    budget,                       \* events the environment may still produce
    presses,                      \* keys passed to on_press so far (history)
    db_file,                      \* capture_dir/recording.db: absent / sqlite / corrupt
    recordings,                   \* rows of its recording table, in id order
    open_sessions,                \* database sessions CaptureSession.load opened and nobody closed
    load_result,                  \* outcome of the last CaptureSession.load
    override,                     \* config_override in progress: position, originals, entry values
    perf_q,                       \* the perf queue: tuples put and not yet taken
    perf_stats,                   \* tuples written as performance_stat rows
    perfPc,                       \* position of performance_stats_writer
    terminate_perf_event,         \* the terminate flag of the perf and memory writers
    prev_window_data,             \* read_window_events: prev_window_data, and what the last poll returned (history)
    chunked,                      \* a ChunkedVideoWriter: open chunk, chunk files, frames
    storage                       \* the events table of a SQLiteStorage

\* the library's state outside a running recording
libVars == <<db_file, recordings, open_sessions, load_result, override>>

perfVars == <<perf_q, perf_stats, perfPc, terminate_perf_event>>

auxVars == <<prev_window_data, chunked, storage>>

vars == <<config, stop_sequences, perf, start_time, start_perf_counter,
          last_timestamp, event_q, write_q, rows, num_events,
          terminate_processing, stop_sequence_detected, stop_sequence_indices,
          listener_raised, readerPc, pending, started_event, brConn,
          ws_server_instance, routerPc, prev_screen_event, prev_window_event,
          prev_saved_screen_timestamp, prev_saved_window_timestamp, taken,
          writerPc, recordPc, recorderPc, budget, presses, libVars, perfVars,
          auxVars>>

clockVars == <<perf, start_time, start_perf_counter, last_timestamp>>

routerVars == <<routerPc, prev_screen_event, prev_window_event,
                prev_saved_screen_timestamp, prev_saved_window_timestamp,
                taken, write_q, num_events>>

stopVars == <<stop_sequence_detected, stop_sequence_indices, listener_raised,
              presses>>

\* ------------------------------------------------------------------------
\* Clock (utils.set_start_time / utils.get_timestamp)
\* ------------------------------------------------------------------------
\* perf counts the instants at which get_timestamp() has read
\* time.perf_counter(); each such read sees a later instant than the one before
PerfCounterNow == perf + 1

\* get_timestamp(): _start_time + (time.perf_counter() - _start_perf_counter)
TimestampNow == start_time + (PerfCounterNow - start_perf_counter)

\* set_start_time(value): re-anchors BOTH globals of the process; its read of
\* time.perf_counter() falls between two reads of get_timestamp()
set_start_time(value) ==
    /\ start_time' = value
    /\ start_perf_counter' = perf
    /\ UNCHANGED <<perf, last_timestamp>>

\* get_timestamp() called by some thread of the host process
get_timestamp ==
    /\ perf' = PerfCounterNow
    /\ last_timestamp' = TimestampNow
    /\ UNCHANGED <<start_time, start_perf_counter>>

\* Event(timestamp, type, data); id is the instant of creation, which names
\* the event object (two events may carry equal timestamps)
Event(type, key) ==
    [ts |-> TimestampNow, type |-> type, id |-> PerfCounterNow,
     sts |-> NoTs, wts |-> NoTs, key |-> key]

\* ------------------------------------------------------------------------
\* Stop-sequence detection (read_keyboard_events.on_press)
\* ------------------------------------------------------------------------
\* keys the keyboard can deliver
Keys == {"ctrl_l", "ctrl_r", "o", "O", "a", "x"}

\* keyboard_listener.canonical(key): layout-normalised identity of a key
Canonical(key) ==
    CASE key \in {"ctrl_l", "ctrl_r"} -> "ctrl"
      [] key = "O" -> "o"
      [] OTHER -> key

\* The for-loop of on_press over the stop sequences, from sequence i on.
\* idx[i] is 0-based as in the source; stop_sequence[idx[i]] raises IndexError
\* when idx[i] = len(stop_sequence), which ends the handler at sequence i.
RECURSIVE OnPressScan(_, _, _, _)
OnPressScan(seqs, idx, ck, i) ==
    IF i > Len(seqs)
    THEN [idx |-> idx, detected |-> FALSE, raised |-> FALSE]
    ELSE IF idx[i] >= Len(seqs[i])
    THEN [idx |-> idx, detected |-> FALSE, raised |-> TRUE]
    ELSE LET ni == IF ck = seqs[i][idx[i] + 1] THEN idx[i] + 1 ELSE 0
             rest == OnPressScan(seqs, [idx EXCEPT ![i] = ni], ck, i + 1)
         IN  [rest EXCEPT !.detected = @ \/ (ni = Len(seqs[i]))]

\* the stop-sequence part of on_press(key)
on_press_stop(key) ==
    LET r == OnPressScan(stop_sequences, stop_sequence_indices, Canonical(key), 1)
    IN  /\ stop_sequence_indices' = r.idx
        /\ stop_sequence_detected' = (stop_sequence_detected \/ r.detected)
        /\ listener_raised' = r.raised
        /\ presses' = Append(presses, key)

\* ------------------------------------------------------------------------
\* Initial state: record() has created the recording and started its tasks
\* ------------------------------------------------------------------------
Configs == [RECORD_WINDOW_DATA : BOOLEAN, RECORD_VIDEO : BOOLEAN,
            RECORD_FULL_VIDEO : BOOLEAN, RECORD_BROWSER_EVENTS : BOOLEAN]

\* tasks record() starts for a configuration (task_by_name)
HasReader(c, r) ==
    CASE r = "window_event_reader" -> c.RECORD_WINDOW_DATA
      [] r = "browser_event_reader" -> c.RECORD_BROWSER_EVENTS
      [] OTHER -> TRUE

HasWriter(c, k) ==
    CASE k = "window" -> c.RECORD_WINDOW_DATA
      [] k = "browser" -> c.RECORD_BROWSER_EVENTS
      [] k = "screen/video" -> c.RECORD_VIDEO
      [] OTHER -> TRUE

\* no config_override is in progress
OverrideIdle == [pc |-> "out", rc |-> <<>>, originals |-> <<>>, entry |-> <<>>]

\* the config_override contexts that can be in progress at once
Contexts == {1, 2}

NoOverride == [c \in Contexts |-> OverrideIdle]

\* a dict without keys: dict.get(key) is None for every key
EmptyDict == [title |-> "None", window_id |-> "None", left |-> "None",
              state |-> "None"]

\* no window data polled yet: prev_window_data = {}
NoWindowData == [dict |-> EmptyDict, polled |-> EmptyDict]

\* a ChunkedVideoWriter just constructed: _current_writer None (0),
\* _chunk_index 0, _chunk_start_time None (<<>>); writers are the VideoWriter
\* objects it has created so far, calls the write_frame calls made on it
NoChunks == [current_writer |-> 0, chunk_index |-> 0,
             chunk_start_time |-> <<>>, writers |-> <<>>, calls |-> 0]

\* the events table after init_schema: no row, and AUTOINCREMENT has not
\* handed out an id yet
EmptyStorage == [rows |-> <<>>, lastrowid |-> 0]

\* every task record() can start, by its name in task_by_name (the writers
\* are named by their event kind)
AllTasks == Readers \cup WriterKinds \cup {"event_processor"}

\* The state in which record() has created the recording, the queues and the
\* tasks T of configuration c.  phase = "created": no task has run yet.
\* phase = "running": every task has run up to its loop (set_start_time,
\* listener.start(), the writers' first loop test) and nothing else has
\* happened.  n is the number of events the environment will produce.
InitWith(c, seqs, n, T, phase) ==
    /\ config = c
    /\ stop_sequences = seqs
    /\ perf = 0
    /\ start_time = RecordingTimestamp
    /\ start_perf_counter = 0
    /\ last_timestamp = NoTs
    /\ event_q = <<>>
    /\ write_q = [k \in WriterKinds |-> <<>>]
    /\ rows = [k \in WriterKinds |-> <<>>]
    /\ num_events = [k \in WriterKinds |-> 0]
    /\ terminate_processing = FALSE
    /\ stop_sequence_detected = FALSE
    /\ stop_sequence_indices = [i \in 1..Len(seqs) |-> 0]
    /\ listener_raised = FALSE
    /\ readerPc = [r \in Readers |->
                     IF r \in T /\ HasReader(c, r)
                     THEN (IF phase = "created" THEN "start" ELSE "run")
                     ELSE "off"]
    /\ pending = [r \in Readers |-> NoEvent]
    /\ started_event = [t \in AllTasks |->
                          /\ phase = "running"
                          /\ t \in T
                          /\ \/ t \in Listeners
                             \/ t = "browser_event_reader" /\ HasReader(c, t)
                             \/ t \in WriterKinds /\ HasWriter(c, t)]
    /\ brConn = "none"
    /\ ws_server_instance =
          IF phase = "running" /\ "browser_event_reader" \in T
             /\ HasReader(c, "browser_event_reader")
          THEN "serving" ELSE "init"
    /\ routerPc = IF "event_processor" \in T
                  THEN (IF phase = "created" THEN "start" ELSE "loop")
                  ELSE "off"
    /\ prev_screen_event = NoEvent
    /\ prev_window_event = NoEvent
    /\ prev_saved_screen_timestamp = 0
    /\ prev_saved_window_timestamp = 0
    /\ taken = <<>>
    /\ writerPc = [k \in WriterKinds |->
                     IF k \in T /\ HasWriter(c, k)
                     THEN (IF phase = "created" THEN "start" ELSE "loop")
                     ELSE "off"]
    /\ recordPc = "wait_started"
    /\ recorderPc = "in"
    /\ budget = n
    /\ presses = <<>>
    /\ db_file = "sqlite"
    /\ recordings = <<RecordingTimestamp>>
    /\ open_sessions = 0
    /\ load_result = "none"
    /\ override = NoOverride
    /\ perf_q = {}
    /\ perf_stats = {}
    /\ perfPc = IF "perf_stats_writer" \in T THEN "loop" ELSE "off"
    /\ terminate_perf_event = FALSE
    /\ prev_window_data = NoWindowData
    /\ chunked = NoChunks
    /\ storage = EmptyStorage

\* ------------------------------------------------------------------------
\* Readers
\* ------------------------------------------------------------------------
readerVars == <<readerPc, pending, started_event, brConn, ws_server_instance>>

\* read_screen_events / read_window_events, up to the loop:
\* utils.set_start_time(recording.timestamp)
PollReaderStart(r) ==
    /\ r \in {"screen_event_reader", "window_event_reader"}
    /\ readerPc[r] = "start"
    /\ set_start_time(RecordingTimestamp)
    /\ readerPc' = [readerPc EXCEPT ![r] = "run"]
    /\ UNCHANGED <<libVars, auxVars, perfVars, config, stop_sequences, event_q, terminate_processing,
                   pending, started_event, brConn, ws_server_instance,
                   recordPc, recorderPc, budget>>
    /\ UNCHANGED routerVars /\ UNCHANGED stopVars /\ UNCHANGED <<rows, writerPc>>

\* one loop iteration of read_screen_events (take_screenshot) or of
\* read_window_events (changed window data), up to the construction of the
\* Event: the loop test, started_event.set() and utils.get_timestamp()
PollReaderRead(r) ==
    /\ r \in {"screen_event_reader", "window_event_reader"}
    /\ readerPc[r] = "run"
    /\ pending[r] = NoEvent
    /\ ~terminate_processing
    /\ budget > 0
    /\ pending' = [pending EXCEPT ![r] =
                     Event(IF r = "screen_event_reader" THEN "screen" ELSE "window", "")]
    /\ get_timestamp
    /\ started_event' = [started_event EXCEPT ![r] = TRUE]
    /\ budget' = budget - 1
    /\ UNCHANGED <<libVars, auxVars, perfVars, config, stop_sequences, event_q, terminate_processing,
                   readerPc, brConn, ws_server_instance, recordPc, recorderPc>>
    /\ UNCHANGED routerVars /\ UNCHANGED stopVars /\ UNCHANGED <<rows, writerPc>>

\* event_q.put(Event(...)) of a polling reader or of the browser handler
ReaderPut(r) ==
    /\ r \in {"screen_event_reader", "window_event_reader", "browser_event_reader"}
    /\ pending[r] # NoEvent
    /\ event_q' = Append(event_q, pending[r])
    /\ pending' = [pending EXCEPT ![r] = NoEvent]
    /\ UNCHANGED <<libVars, auxVars, perfVars, config, stop_sequences, terminate_processing, readerPc,
                   started_event, brConn, ws_server_instance, recordPc,
                   recorderPc, budget>>
    /\ UNCHANGED clockVars /\ UNCHANGED routerVars /\ UNCHANGED stopVars
    /\ UNCHANGED <<rows, writerPc>>

\* the loop test of a polling reader finds terminate_processing set
PollReaderExit(r) ==
    /\ r \in {"screen_event_reader", "window_event_reader"}
    /\ readerPc[r] = "run"
    /\ pending[r] = NoEvent
    /\ terminate_processing
    /\ readerPc' = [readerPc EXCEPT ![r] = "done"]
    /\ UNCHANGED <<libVars, auxVars, perfVars, config, stop_sequences, event_q, terminate_processing,
                   pending, started_event, brConn, ws_server_instance,
                   recordPc, recorderPc, budget>>
    /\ UNCHANGED clockVars /\ UNCHANGED routerVars /\ UNCHANGED stopVars
    /\ UNCHANGED <<rows, writerPc>>

\* read_keyboard_events / read_mouse_events up to terminate_processing.wait():
\* set_start_time, listener.start(), started_event.set()
ListenerStart(r) ==
    /\ r \in Listeners
    /\ readerPc[r] = "start"
    /\ set_start_time(RecordingTimestamp)
    /\ readerPc' = [readerPc EXCEPT ![r] = "run"]
    /\ started_event' = [started_event EXCEPT ![r] = TRUE]
    /\ UNCHANGED <<libVars, auxVars, perfVars, config, stop_sequences, event_q, terminate_processing,
                   pending, brConn, ws_server_instance, recordPc, recorderPc,
                   budget>>
    /\ UNCHANGED routerVars /\ UNCHANGED stopVars /\ UNCHANGED <<rows, writerPc>>

\* a listener callback (on_press via handle_key, on_click) up to the
\* construction of the Event in trigger_action_event: utils.get_timestamp()
CallbackRead(r, key) ==
    /\ r \in Listeners
    /\ readerPc[r] = "run"
    /\ pending[r] = NoEvent
    /\ r = "keyboard_event_reader" => ~listener_raised
    /\ budget > 0
    /\ pending' = [pending EXCEPT ![r] = Event("action", key)]
    /\ get_timestamp
    /\ budget' = budget - 1
    /\ UNCHANGED <<libVars, auxVars, perfVars, config, stop_sequences, event_q, terminate_processing,
                   readerPc, started_event, brConn, ws_server_instance,
                   recordPc, recorderPc>>
    /\ UNCHANGED routerVars /\ UNCHANGED stopVars /\ UNCHANGED <<rows, writerPc>>

\* the rest of the callback: event_q.put(...) and, for on_press, the
\* stop-sequence code
CallbackPut(r) ==
    /\ r \in Listeners
    /\ pending[r] # NoEvent
    /\ event_q' = Append(event_q, pending[r])
    /\ pending' = [pending EXCEPT ![r] = NoEvent]
    /\ IF r = "keyboard_event_reader"
       THEN on_press_stop(pending[r].key)
       ELSE UNCHANGED stopVars
    /\ UNCHANGED <<libVars, auxVars, perfVars, config, stop_sequences, terminate_processing, readerPc,
                   started_event, brConn, ws_server_instance, recordPc,
                   recorderPc, budget>>
    /\ UNCHANGED clockVars /\ UNCHANGED routerVars /\ UNCHANGED <<rows, writerPc>>

\* terminate_processing.wait() returns; listener.stop()
ListenerStop(r) ==
    /\ r \in Listeners
    /\ readerPc[r] = "run"
    /\ terminate_processing
    /\ readerPc' = [readerPc EXCEPT ![r] = "done"]
    /\ UNCHANGED <<libVars, auxVars, perfVars, config, stop_sequences, event_q, terminate_processing,
                   pending, started_event, brConn, ws_server_instance,
                   recordPc, recorderPc, budget>>
    /\ UNCHANGED clockVars /\ UNCHANGED routerVars /\ UNCHANGED stopVars
    /\ UNCHANGED <<rows, writerPc>>

\* run_browser_event_server starts run_server on its own thread and goes to
\* terminate_processing.wait()
BrowserServerStart ==
    /\ readerPc["browser_event_reader"] = "start"
    /\ readerPc' = [readerPc EXCEPT !["browser_event_reader"] = "run"]
    /\ UNCHANGED <<libVars, auxVars, perfVars, config, stop_sequences, event_q, terminate_processing,
                   pending, started_event, brConn, ws_server_instance,
                   recordPc, recorderPc, budget>>
    /\ UNCHANGED clockVars /\ UNCHANGED routerVars /\ UNCHANGED stopVars
    /\ UNCHANGED <<rows, writerPc>>

\* run_server: ws_server_instance = server; started_event.set(); serve_forever()
RunServer ==
    /\ readerPc["browser_event_reader"] # "start"
    /\ ws_server_instance = "init"
    /\ ws_server_instance' = "serving"
    /\ started_event' = [started_event EXCEPT !["browser_event_reader"] = TRUE]
    /\ UNCHANGED <<libVars, auxVars, perfVars, config, stop_sequences, event_q, terminate_processing,
                   readerPc, pending, brConn, recordPc, recorderPc, budget>>
    /\ UNCHANGED clockVars /\ UNCHANGED routerVars /\ UNCHANGED stopVars
    /\ UNCHANGED <<rows, writerPc>>

\* run_browser_event_server after the wait: shut the server down if
\* ws_server_instance is set, then server_thread.join()
BrowserServerStop ==
    /\ readerPc["browser_event_reader"] = "run"
    /\ terminate_processing
    /\ IF ws_server_instance = "serving"
       THEN /\ ws_server_instance' = "shutdown"
            /\ readerPc' = [readerPc EXCEPT !["browser_event_reader"] = "done"]
       ELSE /\ readerPc' = [readerPc EXCEPT !["browser_event_reader"] = "join"]
            /\ UNCHANGED ws_server_instance
    /\ UNCHANGED <<libVars, auxVars, perfVars, config, stop_sequences, event_q, terminate_processing,
                   pending, started_event, brConn, recordPc, recorderPc, budget>>
    /\ UNCHANGED clockVars /\ UNCHANGED routerVars /\ UNCHANGED stopVars
    /\ UNCHANGED <<rows, writerPc>>

\* read_browser_events on a new connection: set_start_time(recording.timestamp)
BrowserConnect ==
    /\ ws_server_instance = "serving"
    /\ brConn = "none"
    /\ brConn' = "open"
    /\ set_start_time(RecordingTimestamp)
    /\ UNCHANGED <<libVars, auxVars, perfVars, config, stop_sequences, event_q, terminate_processing,
                   readerPc, pending, started_event, ws_server_instance,
                   recordPc, recorderPc, budget>>
    /\ UNCHANGED routerVars /\ UNCHANGED stopVars /\ UNCHANGED <<rows, writerPc>>

\* one loop iteration of read_browser_events, up to the Event: the loop
\* test, websocket.recv() and utils.get_timestamp()
BrowserRead ==
    /\ brConn = "open"
    /\ pending["browser_event_reader"] = NoEvent
    /\ ~terminate_processing
    /\ budget > 0
    /\ pending' = [pending EXCEPT !["browser_event_reader"] = Event("browser", "")]
    /\ get_timestamp
    /\ budget' = budget - 1
    /\ UNCHANGED <<libVars, auxVars, perfVars, config, stop_sequences, event_q, terminate_processing,
                   readerPc, started_event, brConn, ws_server_instance,
                   recordPc, recorderPc>>
    /\ UNCHANGED routerVars /\ UNCHANGED stopVars /\ UNCHANGED <<rows, writerPc>>

\* the loop test of read_browser_events finds terminate_processing set
BrowserHandlerExit ==
    /\ brConn = "open"
    /\ pending["browser_event_reader"] = NoEvent
    /\ terminate_processing
    /\ brConn' = "closed"
    /\ UNCHANGED <<libVars, auxVars, perfVars, config, stop_sequences, event_q, terminate_processing,
                   readerPc, pending, started_event, ws_server_instance,
                   recordPc, recorderPc, budget>>
    /\ UNCHANGED clockVars /\ UNCHANGED routerVars /\ UNCHANGED stopVars
    /\ UNCHANGED <<rows, writerPc>>

\* ------------------------------------------------------------------------
\* Router (process_events)
\* ------------------------------------------------------------------------
\* a put that jumps the queue: the event goes to the head of the writer queue
process_eventAtHead(q, kind, e) == [q EXCEPT ![kind] = <<e>> \o @]

\* process_event(event, write_q, ...): PROC_WRITE_BY_EVENT_TYPE is True for
\* every kind, so the event goes on the end of the writer queue
process_event(q, kind, e) == [q EXCEPT ![kind] = Append(@, e)]

Incr(n, kind) == [n EXCEPT ![kind] = @ + 1]

\* process_events up to the loop: utils.set_start_time(recording.timestamp)
RouterStart ==
    /\ routerPc = "start"
    /\ set_start_time(RecordingTimestamp)
    /\ routerPc' = "loop"
    /\ UNCHANGED <<libVars, auxVars, perfVars, config, stop_sequences, event_q, terminate_processing,
                   recordPc, recorderPc, budget, rows, writerPc,
                   prev_screen_event, prev_window_event,
                   prev_saved_screen_timestamp, prev_saved_window_timestamp,
                   taken, write_q, num_events>>
    /\ UNCHANGED readerVars /\ UNCHANGED stopVars

\* the loop test passes with an empty inbox: the router blocks in event_q.get()
RouterBlock ==
    /\ routerPc = "loop"
    /\ ~terminate_processing
    /\ event_q = <<>>
    /\ routerPc' = "get"
    /\ UNCHANGED <<libVars, auxVars, perfVars, config, stop_sequences, event_q, terminate_processing,
                   recordPc, recorderPc, budget, rows, writerPc,
                   prev_screen_event, prev_window_event,
                   prev_saved_screen_timestamp, prev_saved_window_timestamp,
                   taken, write_q, num_events>>
    /\ UNCHANGED clockVars /\ UNCHANGED readerVars /\ UNCHANGED stopVars

\* the loop test fails: terminate_processing is set and the inbox is empty
RouterExit ==
    /\ routerPc = "loop"
    /\ terminate_processing
    /\ event_q = <<>>
    /\ routerPc' = "done"
    /\ UNCHANGED <<libVars, auxVars, perfVars, config, stop_sequences, event_q, terminate_processing,
                   recordPc, recorderPc, budget, rows, writerPc,
                   prev_screen_event, prev_window_event,
                   prev_saved_screen_timestamp, prev_saved_window_timestamp,
                   taken, write_q, num_events>>
    /\ UNCHANGED clockVars /\ UNCHANGED readerVars /\ UNCHANGED stopVars

\* the "screen" branch with the RECORD_FULL_VIDEO test lost: every screen
\* event goes to the video queue
RouteScreenUngated(event) ==
    /\ prev_screen_event' = event
    /\ write_q' = process_event(write_q, "screen/video", event)
    /\ num_events' = Incr(num_events, "screen/video")
    /\ routerPc' = "loop"
    /\ UNCHANGED <<prev_window_event, prev_saved_screen_timestamp,
                   prev_saved_window_timestamp>>

\* the "screen" branch
RouteScreen(event) ==
    /\ prev_screen_event' = event
    /\ IF config.RECORD_FULL_VIDEO
       THEN /\ write_q' = process_event(write_q, "screen/video", event)
            /\ num_events' = Incr(num_events, "screen/video")
       ELSE UNCHANGED <<write_q, num_events>>
    /\ routerPc' = "loop"
    /\ UNCHANGED <<prev_window_event, prev_saved_screen_timestamp,
                   prev_saved_window_timestamp>>

\* the "window" branch
RouteWindow(event) ==
    /\ prev_window_event' = event
    /\ routerPc' = "loop"
    /\ UNCHANGED <<prev_screen_event, prev_saved_screen_timestamp,
                   prev_saved_window_timestamp, write_q, num_events>>

\* the "browser" branch
RouteBrowser(event) ==
    /\ IF config.RECORD_BROWSER_EVENTS
       THEN write_q' = process_event(write_q, "browser", event)
       ELSE UNCHANGED write_q
    /\ routerPc' = "loop"
    /\ UNCHANGED <<prev_screen_event, prev_window_event,
                   prev_saved_screen_timestamp, prev_saved_window_timestamp,
                   num_events>>

\* an "action" branch without its two `continue`s
DiscardsNothing == FALSE

\* does the "action" branch discard the action (the two `continue`s)
Discards ==
    \/ prev_screen_event = NoEvent
    \/ prev_window_event = NoEvent /\ config.RECORD_WINDOW_DATA

\* prev_window_event.timestamp is evaluated on None: AttributeError
WindowCheckRaises == prev_window_event = NoEvent

\* a screenshot test that always passes
SaveScreenAlways == TRUE

\* prev_saved_screen_timestamp < prev_screen_event.timestamp
SaveScreen == prev_saved_screen_timestamp < prev_screen_event.ts

\* the "action" branch
RouteAction(event) ==
    IF Discards
    THEN /\ routerPc' = "loop"
         /\ UNCHANGED <<prev_screen_event, prev_window_event,
                        prev_saved_screen_timestamp,
                        prev_saved_window_timestamp, write_q, num_events>>
    ELSE LET action == [event EXCEPT
                          !.sts = prev_screen_event.ts,
                          !.wts = IF prev_window_event = NoEvent
                                  THEN NoTs ELSE prev_window_event.ts]
             saveScreen == SaveScreen
             gated == config.RECORD_VIDEO /\ ~config.RECORD_FULL_VIDEO
             saveWindow == /\ ~WindowCheckRaises
                           /\ prev_saved_window_timestamp < prev_window_event.ts
             q1 == process_event(write_q, "action", action)
             q2 == IF saveScreen
                   THEN process_event(q1, "screen", prev_screen_event) ELSE q1
             q3 == IF saveScreen /\ gated
                   THEN process_event(q2, "screen/video", prev_screen_event) ELSE q2
             q4 == IF saveWindow
                   THEN process_event(q3, "window", prev_window_event) ELSE q3
             n1 == Incr(num_events, "action")
             n2 == IF saveScreen THEN Incr(n1, "screen") ELSE n1
             n3 == IF saveScreen /\ gated THEN Incr(n2, "screen/video") ELSE n2
             n4 == IF saveWindow THEN Incr(n3, "window") ELSE n3
         IN  /\ write_q' = q4
             /\ num_events' = n4
             /\ prev_saved_screen_timestamp' =
                   IF saveScreen THEN prev_screen_event.ts
                   ELSE prev_saved_screen_timestamp
             /\ prev_saved_window_timestamp' =
                   IF saveWindow THEN prev_window_event.ts
                   ELSE prev_saved_window_timestamp
             /\ routerPc' = IF WindowCheckRaises THEN "raised" ELSE "loop"
             /\ UNCHANGED <<prev_screen_event, prev_window_event>>

\* one loop iteration with an event available: event_q.get(), the
\* started_event, the (swallowed) ordering assertion and the branch on
\* event.type
RouterStep ==
    /\ routerPc \in {"loop", "get"}
    /\ event_q # <<>>
    /\ LET event == Head(event_q)
       IN  /\ event_q' = Tail(event_q)
           /\ taken' = Append(taken, event)
           /\ CASE event.type = "screen" -> RouteScreen(event)
                [] event.type = "window" -> RouteWindow(event)
                [] event.type = "browser" -> RouteBrowser(event)
                [] event.type = "action" -> RouteAction(event)
    /\ started_event' = [started_event EXCEPT !["event_processor"] = TRUE]
    /\ UNCHANGED <<libVars, auxVars, perfVars, config, stop_sequences, terminate_processing, readerPc,
                   pending, brConn, ws_server_instance, recordPc, recorderPc,
                   budget, rows, writerPc>>
    /\ UNCHANGED clockVars /\ UNCHANGED stopVars

\* ------------------------------------------------------------------------
\* Writers (write_events, one process per kind)
\* ------------------------------------------------------------------------
\* where write_events ends once its loop test fails: post_callback(state) runs
\* after the loop, and video_post_callback reads state["last_frame"], a key
\* that only write_video_event adds to the state: KeyError when the video
\* writer has written no event
AfterLoop(k) ==
    IF k = "screen/video" /\ rows[k] = <<>> THEN "raised" ELSE "done"

\* write_events up to the first evaluation of the loop test (pre_callback
\* included); started_event.set() happens inside the loop, so a writer that
\* finds the test false never sets it
WriterStart(k) ==
    /\ writerPc[k] = "start"
    /\ IF terminate_processing /\ write_q[k] = <<>>
       THEN /\ writerPc' = [writerPc EXCEPT ![k] = AfterLoop(k)]
            /\ UNCHANGED started_event
       ELSE /\ writerPc' = [writerPc EXCEPT ![k] = "loop"]
            /\ started_event' = [started_event EXCEPT ![k] = TRUE]
    /\ UNCHANGED <<libVars, auxVars, perfVars, config, stop_sequences, event_q, terminate_processing,
                   readerPc, pending, brConn, ws_server_instance, recordPc,
                   recorderPc, budget, rows>>
    /\ UNCHANGED clockVars /\ UNCHANGED routerVars /\ UNCHANGED stopVars

\* (event.type, event.timestamp, utils.get_timestamp()) as the write
\* functions put it on perf_q; id names the event the tuple was made for
PerfTuple(k, event) == [type |-> k, ts |-> event.ts, id |-> event.id]

\* write_q.get_nowait() returns an event; write_fn inserts the row and puts
\* its tuple on perf_q
WriterWrite(k) ==
    /\ writerPc[k] = "loop"
    /\ write_q[k] # <<>>
    /\ rows' = [rows EXCEPT ![k] = Append(@, Head(write_q[k]))]
    /\ write_q' = [write_q EXCEPT ![k] = Tail(@)]
    /\ perf_q' = perf_q \cup {PerfTuple(k, Head(write_q[k]))}
    /\ UNCHANGED <<libVars, auxVars, perf_stats, perfPc, terminate_perf_event,
                   config, stop_sequences, event_q, terminate_processing,
                   recordPc, recorderPc, budget, writerPc, routerPc,
                   prev_screen_event, prev_window_event,
                   prev_saved_screen_timestamp, prev_saved_window_timestamp,
                   taken, num_events>>
    /\ UNCHANGED clockVars /\ UNCHANGED readerVars /\ UNCHANGED stopVars

\* the loop test fails: terminate_processing is set and write_q is empty;
\* post_callback (for the video writer: finalize_video_writer)
WriterExit(k) ==
    /\ writerPc[k] = "loop"
    /\ terminate_processing
    /\ write_q[k] = <<>>
    /\ writerPc' = [writerPc EXCEPT ![k] = AfterLoop(k)]
    /\ UNCHANGED <<libVars, auxVars, perfVars, config, stop_sequences, event_q, terminate_processing,
                   recordPc, recorderPc, budget, rows>>
    /\ UNCHANGED clockVars /\ UNCHANGED readerVars /\ UNCHANGED routerVars
    /\ UNCHANGED stopVars

\* ------------------------------------------------------------------------
\* record() and the Recorder context
\* ------------------------------------------------------------------------
\* task_by_name: the tasks record() started
Tasks == {r \in Readers : readerPc[r] # "off"} \cup
         {k \in WriterKinds : writerPc[k] # "off"} \cup
         {t \in {"event_processor"} : routerPc # "off"}

\* a join that returns whether or not the task has ended
TaskEndedOrNot(t) == TRUE

\* task.join() returns: the thread or process has ended, normally or not
TaskEnded(t) ==
    CASE t \in Readers -> readerPc[t] = "done"
      [] t \in WriterKinds -> writerPc[t] \in {"done", "raised"}
      [] OTHER -> routerPc \in {"done", "raised"}

\* the wait for all started events, then stop_sequence_detected = False
RecordStartedNoReset ==
    /\ recordPc = "wait_started"
    /\ \A t \in Tasks : started_event[t]
    /\ recordPc' = "running"
    /\ UNCHANGED <<libVars, auxVars, perfVars, config, stop_sequences, event_q, terminate_processing,
                   recorderPc, budget, rows, writerPc>>
    /\ UNCHANGED clockVars /\ UNCHANGED readerVars /\ UNCHANGED routerVars
    /\ UNCHANGED stopVars

RecordStarted ==
    /\ recordPc = "wait_started"
    /\ \A t \in Tasks : started_event[t]
    /\ recordPc' = "running"
    /\ stop_sequence_detected' = FALSE
    /\ UNCHANGED <<libVars, auxVars, perfVars, config, stop_sequences, event_q, terminate_processing,
                   recorderPc, budget, rows, writerPc, stop_sequence_indices,
                   listener_raised, presses>>
    /\ UNCHANGED clockVars /\ UNCHANGED readerVars /\ UNCHANGED routerVars

\* the wait-for-stop loop ends; terminate_processing.set()
RecordStop ==
    /\ recordPc = "running"
    /\ stop_sequence_detected \/ terminate_processing
    /\ terminate_processing' = TRUE
    /\ recordPc' = "join"
    /\ UNCHANGED <<libVars, auxVars, perfVars, config, stop_sequences, event_q, recorderPc, budget, rows,
                   writerPc>>
    /\ UNCHANGED clockVars /\ UNCHANGED readerVars /\ UNCHANGED routerVars
    /\ UNCHANGED stopVars

\* KeyboardInterrupt in the wait-for-stop loop; terminate_processing.set()
RecordInterrupt ==
    /\ recordPc = "running"
    /\ ~terminate_processing
    /\ terminate_processing' = TRUE
    /\ recordPc' = "join"
    /\ UNCHANGED <<libVars, auxVars, perfVars, config, stop_sequences, event_q, recorderPc, budget, rows,
                   writerPc>>
    /\ UNCHANGED clockVars /\ UNCHANGED readerVars /\ UNCHANGED routerVars
    /\ UNCHANGED stopVars



\* join_tasks(...) for every reader, the router and every writer, then
\* terminate_perf_event.set(); with no perf writer to join, post-processing
\* and return
RecordJoin ==
    /\ recordPc = "join"
    /\ \A t \in Tasks : TaskEnded(t)
    /\ terminate_perf_event' = TRUE
    /\ recordPc' = IF perfPc = "off" THEN "returned" ELSE "join_perf"
    /\ UNCHANGED <<libVars, auxVars, perf_q, perf_stats, perfPc,
                   config, stop_sequences, event_q, terminate_processing,
                   recorderPc, budget, rows, writerPc>>
    /\ UNCHANGED clockVars /\ UNCHANGED readerVars /\ UNCHANGED routerVars
    /\ UNCHANGED stopVars

\* the second join_tasks (perf_stats_writer), post-processing, return
RecordJoinPerf ==
    /\ recordPc = "join_perf"
    /\ perfPc = "done"
    /\ recordPc' = "returned"
    /\ UNCHANGED <<libVars, auxVars, perfVars, config, stop_sequences, event_q, terminate_processing,
                   recorderPc, budget, rows, writerPc>>
    /\ UNCHANGED clockVars /\ UNCHANGED readerVars /\ UNCHANGED routerVars
    /\ UNCHANGED stopVars

\* a loop test of performance_stats_writer that looks at the flag only, like
\* memory_writer's
PerfLoopTestFlagOnly == ~terminate_perf_event

\* performance_stats_writer's loop test:
\* not terminate_processing.is_set() or not perf_q.empty()
PerfLoopTest == ~terminate_perf_event \/ perf_q # {}

\* perf_q.get_nowait() returns a tuple; crud.insert_perf_stat
PerfWrite ==
    /\ perfPc = "loop"
    /\ PerfLoopTest
    /\ \E t \in perf_q :
          /\ perf_q' = perf_q \ {t}
          /\ perf_stats' = perf_stats \cup {t}
    /\ UNCHANGED <<libVars, auxVars, perfPc, terminate_perf_event,
                   config, stop_sequences, event_q, terminate_processing,
                   recordPc, recorderPc, budget, rows, writerPc>>
    /\ UNCHANGED clockVars /\ UNCHANGED readerVars /\ UNCHANGED routerVars
    /\ UNCHANGED stopVars

\* the loop test fails
PerfExit ==
    /\ perfPc = "loop"
    /\ ~PerfLoopTest
    /\ perfPc' = "done"
    /\ UNCHANGED <<libVars, auxVars, perf_q, perf_stats, terminate_perf_event,
                   config, stop_sequences, event_q, terminate_processing,
                   recordPc, recorderPc, budget, rows, writerPc>>
    /\ UNCHANGED clockVars /\ UNCHANGED readerVars /\ UNCHANGED routerVars
    /\ UNCHANGED stopVars

\* Recorder.stop()
RecorderStop ==
    /\ recorderPc = "in"
    /\ ~terminate_processing
    /\ terminate_processing' = TRUE
    /\ UNCHANGED <<libVars, auxVars, perfVars, config, stop_sequences, event_q, recordPc, recorderPc,
                   budget, rows, writerPc>>
    /\ UNCHANGED clockVars /\ UNCHANGED readerVars /\ UNCHANGED routerVars
    /\ UNCHANGED stopVars

\* Recorder.__exit__ up to the join of the record thread
RecorderExit ==
    /\ recorderPc = "in"
    /\ terminate_processing' = TRUE
    /\ recorderPc' = "joining"
    /\ UNCHANGED <<libVars, auxVars, perfVars, config, stop_sequences, event_q, recordPc, budget, rows,
                   writerPc>>
    /\ UNCHANGED clockVars /\ UNCHANGED readerVars /\ UNCHANGED routerVars
    /\ UNCHANGED stopVars

\* Recorder.__exit__ after self._record_thread.join()
RecorderExited ==
    /\ recorderPc = "joining"
    /\ recordPc = "returned"
    /\ recorderPc' = "exited"
    /\ UNCHANGED <<libVars, auxVars, perfVars, config, stop_sequences, event_q, terminate_processing,
                   recordPc, budget, rows, writerPc>>
    /\ UNCHANGED clockVars /\ UNCHANGED readerVars /\ UNCHANGED routerVars
    /\ UNCHANGED stopVars

\* ------------------------------------------------------------------------
\* History read off the state
\* ------------------------------------------------------------------------
\* everything the router has put on the writer queue of a kind, in order:
\* the rows already written, then the events still queued
Put(kind) == rows[kind] \o write_q[kind]

Ids(s) == {s[i].id : i \in 1..Len(s)}

Gated == config.RECORD_VIDEO /\ ~config.RECORD_FULL_VIDEO

\* ------------------------------------------------------------------------
\* SpecRouter: the router alone, fed every sequence of inbox events
\* ------------------------------------------------------------------------
\* events put on the inbox in the router specification
MaxInbox == 4
\* distinct timestamps those events carry
MaxTs == 2

\* some reader puts Event(ts, type, data) on the inbox; a window event needs
\* the window reader and a browser event the browser server
InboxPut(type, ts) ==
    /\ budget > 0
    /\ type = "window" => config.RECORD_WINDOW_DATA
    /\ type = "browser" => config.RECORD_BROWSER_EVENTS
    /\ event_q' = Append(event_q, [Event(type, "") EXCEPT !.ts = ts])
    /\ perf' = PerfCounterNow
    /\ budget' = budget - 1
    /\ UNCHANGED <<libVars, auxVars, perfVars, config, stop_sequences, terminate_processing, recordPc,
                   recorderPc, rows, writerPc, start_time, start_perf_counter,
                   last_timestamp>>
    /\ UNCHANGED readerVars /\ UNCHANGED routerVars /\ UNCHANGED stopVars

InitRouter ==
    \E c \in Configs :
        InitWith(c, STOP_SEQUENCES, MaxInbox, {"event_processor"}, "running")

NextRouter ==
    \/ \E type \in EVENT_TYPES :
         \E ts \in (RecordingTimestamp + 1)..(RecordingTimestamp + MaxTs) :
            InboxPut(type, ts)
    \/ RouterStep

SpecRouter == InitRouter /\ [][NextRouter]_vars

\* C2: in action-gated mode the frames put on the video queue are at most as
\* many as the actions routed, no screen event is put there twice, and every
\* screen event put there was taken from the inbox before some routed action
C2_ActionGatedVideo ==
    Gated =>
        /\ Len(Put("screen/video")) <= Len(Put("action"))
        /\ Len(Put("screen/video")) = num_events["screen/video"]
        /\ \A i, j \in 1..Len(Put("screen/video")) :
              i # j => Put("screen/video")[i].id # Put("screen/video")[j].id
        /\ \A f \in 1..Len(Put("screen/video")) :
              \E i, j \in 1..Len(taken) :
                 /\ i < j
                 /\ taken[i].id = Put("screen/video")[f].id
                 /\ taken[i].type = "screen"
                 /\ taken[j].type = "action"
                 /\ taken[j].id \in Ids(Put("action"))

\* a frame was put for one action, and a later screen event, followed by no
\* action, was taken and not put
C2_Witness ==
    /\ Gated
    /\ Len(Put("screen/video")) = 1
    /\ Len(taken) >= 3
    /\ taken[Len(taken)].type = "screen"
    /\ taken[Len(taken)].id \notin Ids(Put("screen/video"))

\* C7: process_events never raises, and with window capture off actions are
\* routed with a screenshot timestamp and no window timestamp
C7_RouterNeverRaises ==
    /\ routerPc # "raised"
    /\ ~config.RECORD_WINDOW_DATA =>
          \A i \in 1..Len(Put("action")) :
             /\ Put("action")[i].sts # NoTs
             /\ Put("action")[i].wts = NoTs

\* ------------------------------------------------------------------------
\* SpecStop: the keyboard listener alone, fed every sequence of key presses
\* ------------------------------------------------------------------------
\* the default settings of config.Settings
DefaultConfig == [RECORD_WINDOW_DATA |-> FALSE, RECORD_VIDEO |-> TRUE,
                  RECORD_FULL_VIDEO |-> FALSE, RECORD_BROWSER_EVENTS |-> FALSE]

\* values of STOP_SEQUENCES: the default, and one short typed sequence
StopConfigs == {STOP_SEQUENCES, << <<"o", "a">> >>}

\* on_press(key) for a key that is not injected, run to completion on the
\* listener thread: handle_key -> trigger_action_event, then the
\* stop-sequence code
OnPress(key) ==
    /\ readerPc["keyboard_event_reader"] = "run"
    /\ ~listener_raised
    /\ budget > 0
    /\ event_q' = Append(event_q, Event("action", key))
    /\ get_timestamp
    /\ on_press_stop(key)
    /\ budget' = budget - 1
    /\ UNCHANGED <<libVars, auxVars, perfVars, config, stop_sequences, terminate_processing, recordPc,
                   recorderPc, rows, writerPc>>
    /\ UNCHANGED readerVars /\ UNCHANGED routerVars

InitStop ==
    \E seqs \in StopConfigs :
        InitWith(DefaultConfig, seqs, MaxPresses, {"keyboard_event_reader"},
                 "running")

NextStop == \E key \in Keys : OnPress(key)

SpecStop == InitStop /\ [][NextStop]_vars

\* the last Len(seq) presses are, by canonical key, exactly seq
RunJustPressed(seq) ==
    /\ Len(presses) >= Len(seq)
    /\ \A j \in 1..Len(seq) :
          Canonical(presses[Len(presses) - Len(seq) + j]) = seq[j]

\* C9: whenever the keys of a configured stop sequence have just been pressed
\* one after another, stop_sequence_detected is set, whatever preceded the run
C9_StopRunDetected ==
    \A i \in 1..Len(stop_sequences) :
        RunJustPressed(stop_sequences[i]) => stop_sequence_detected

\* ------------------------------------------------------------------------
\* SpecIngest: the reader threads and the router from their creation, with
\* Recorder.stop() arriving at any moment
\* ------------------------------------------------------------------------
IngestTasks == {"screen_event_reader", "window_event_reader",
                "keyboard_event_reader", "event_processor"}

\* the video and browser settings do not reach these tasks; they are left at
\* their defaults
IngestConfigs == {c \in Configs : /\ c.RECORD_VIDEO
                                   /\ ~c.RECORD_FULL_VIDEO
                                   /\ ~c.RECORD_BROWSER_EVENTS}

\* the key of a listener callback: a letter for on_press, none for the mouse
CallbackKeys(r) == IF r = "keyboard_event_reader" THEN {"a"} ELSE {""}

\* one step of a polling reader thread (screen, window)
PollReaderStep(r) ==
    \/ PollReaderStart(r)
    \/ PollReaderRead(r)
    \/ ReaderPut(r)
    \/ PollReaderExit(r)

\* one step of a listener thread or of one of its callbacks
ListenerStep(r) ==
    \/ ListenerStart(r)
    \/ \E key \in CallbackKeys(r) : CallbackRead(r, key)
    \/ CallbackPut(r)
    \/ ListenerStop(r)

\* one step of process_events
RouterThread ==
    \/ RouterStart
    \/ RouterBlock
    \/ RouterStep
    \/ RouterExit

InitIngest ==
    \E c \in IngestConfigs :
        InitWith(c, STOP_SEQUENCES, MaxReads, IngestTasks, "created")

NextIngest ==
    \/ \E r \in IngestTasks \cap (Readers \ Listeners) : PollReaderStep(r)
    \/ \E r \in IngestTasks \cap Listeners : ListenerStep(r)
    \/ RouterThread
    \/ RecorderStop

SpecIngest == InitIngest /\ [][NextIngest]_vars

\* C1: every action event on the action writer queue has a screenshot
\* timestamp no later than its own timestamp and, when window capture is on,
\* a window timestamp no later than its own timestamp
C1_ActionStampsNotLater ==
    \A i \in 1..Len(Put("action")) :
        /\ Put("action")[i].sts <= Put("action")[i].ts
        /\ config.RECORD_WINDOW_DATA => Put("action")[i].wts <= Put("action")[i].ts

\* C4: when the router has left its loop through the loop test, every event
\* put on the inbox has been taken: the inbox is empty
C4_InboxEmptyOnceRouterLeft == routerPc = "done" => event_q = <<>>

\* C8: a call of get_timestamp() in the host process never returns less than
\* the call before it
C8_TimestampsNeverDecrease == [][last_timestamp' >= last_timestamp]_vars

\* ------------------------------------------------------------------------
\* SpecBrowser: the browser event server, one connection handler, the router
\* and the browser writer, with browser capture on
\* ------------------------------------------------------------------------
BrowserTasks == {"browser_event_reader", "event_processor", "browser"}

BrowserConfig == [RECORD_WINDOW_DATA |-> FALSE, RECORD_VIDEO |-> TRUE,
                  RECORD_FULL_VIDEO |-> FALSE, RECORD_BROWSER_EVENTS |-> TRUE]

\* one step of run_browser_event_server, of run_server or of
\* read_browser_events
BrowserStep ==
    \/ BrowserServerStart
    \/ RunServer
    \/ BrowserConnect
    \/ BrowserRead
    \/ ReaderPut("browser_event_reader")
    \/ BrowserHandlerExit
    \/ BrowserServerStop

InitBrowser ==
    InitWith(BrowserConfig, STOP_SEQUENCES, MaxReads, BrowserTasks, "created")

NextBrowser ==
    \/ BrowserStep
    \/ RouterThread
    \/ \E k \in BrowserTasks \cap WriterKinds :
          \/ WriterStart(k)
          \/ WriterWrite(k)
          \/ WriterExit(k)
    \/ RecorderStop

SpecBrowser == InitBrowser /\ [][NextBrowser]_vars

\* ------------------------------------------------------------------------
\* SpecStartup: a Recorder context from __enter__ on, with the default
\* settings: record() has created its tasks, none has run yet, and stop() or
\* __exit__ may come at any moment
\* ------------------------------------------------------------------------
StartupTasks == {"screen_event_reader", "keyboard_event_reader",
                 "event_processor", "action"}

\* one step of a writer process
WriterStep(k) ==
    \/ WriterStart(k)
    \/ WriterWrite(k)
    \/ WriterExit(k)

\* one step of record() after it has started its tasks.  Inside a Recorder
\* record() runs on a worker thread, which receives no KeyboardInterrupt
RecordThread ==
    \/ RecordStarted
    \/ RecordStop
    \/ RecordJoin

InitStartup ==
    InitWith(DefaultConfig, STOP_SEQUENCES, MaxReads, StartupTasks, "created")

NextStartup ==
    \/ \E r \in StartupTasks \cap (Readers \ Listeners) : PollReaderStep(r)
    \/ \E r \in StartupTasks \cap Listeners : ListenerStep(r)
    \/ RouterThread
    \/ \E k \in StartupTasks \cap WriterKinds : WriterStep(k)
    \/ RecordThread
    \/ RecorderStop
    \/ RecorderExit
    \/ RecorderExited

\* Every thread and process of the program is scheduled again and again.  The
\* user's key presses (CallbackRead) and the caller's stop() and __exit__ are
\* not the program's to make, and get no fairness.
FairStartup ==
    /\ \A r \in StartupTasks \cap (Readers \ Listeners) :
          /\ WF_vars(PollReaderStart(r) \/ ReaderPut(r) \/ PollReaderExit(r))
          /\ WF_vars(PollReaderRead(r))
    /\ \A r \in StartupTasks \cap Listeners :
          WF_vars(ListenerStart(r) \/ CallbackPut(r) \/ ListenerStop(r))
    /\ WF_vars(RouterThread)
    /\ \A k \in StartupTasks \cap WriterKinds : WF_vars(WriterStep(k))
    /\ WF_vars(RecordThread)
    /\ WF_vars(RecorderExited)

SpecStartup == InitStartup /\ [][NextStartup]_vars /\ FairStartup

\* C5: once stop() or __exit__ has set terminate_processing, record()
\* eventually returns, and an __exit__ that waits for it completes
C5_StopLeadsToReturn ==
    /\ terminate_processing ~> (recordPc = "returned")
    /\ (recorderPc = "joining") ~> (recorderPc = "exited")

\* ------------------------------------------------------------------------
\* SpecPersist: a running recording with window capture on, from the moment
\* every task is in its loop until record() has joined them all
\* ------------------------------------------------------------------------
PersistTasks == {"screen_event_reader", "window_event_reader",
                 "keyboard_event_reader", "event_processor",
                 "action", "screen", "window"}

PersistConfig == [RECORD_WINDOW_DATA |-> TRUE, RECORD_VIDEO |-> FALSE,
                  RECORD_FULL_VIDEO |-> FALSE, RECORD_BROWSER_EVENTS |-> FALSE]

\* one step of a reader that is in its loop
ReaderLoopStep ==
    \/ \E r \in PersistTasks \cap (Readers \ Listeners) :
          \/ PollReaderRead(r)
          \/ ReaderPut(r)
          \/ PollReaderExit(r)
    \/ \E r \in PersistTasks \cap Listeners :
          \/ \E key \in CallbackKeys(r) : CallbackRead(r, key)
          \/ CallbackPut(r)
          \/ ListenerStop(r)

\* one step of process_events in its loop
RouterLoopStep ==
    \/ RouterBlock
    \/ RouterStep
    \/ RouterExit

\* one step of a writer process in its loop
WriterLoopStep ==
    \E k \in PersistTasks \cap WriterKinds :
        \/ WriterWrite(k)
        \/ WriterExit(k)

InitPersist ==
    InitWith(PersistConfig, STOP_SEQUENCES, MaxReads, PersistTasks, "running")

NextPersist ==
    \/ ReaderLoopStep
    \/ RouterLoopStep
    \/ WriterLoopStep
    \/ RecordStarted
    \/ RecorderStop
    \/ RecordStop
    \/ RecordInterrupt
    \/ RecordJoin

SpecPersist == InitPersist /\ [][NextPersist]_vars

\* C3: when record() has returned, the action rows number num_action_events
C3_ActionRowsMatchCounter ==
    recordPc = "returned" => Len(rows["action"]) = num_events["action"]

\* C6: when record() has returned, every action row has a screenshot row
\* whose timestamp is the action's screenshot_timestamp
C6_ActionHasScreenshotRow ==
    recordPc = "returned" =>
        \A a \in 1..Len(rows["action"]) :
            \E s \in 1..Len(rows["screen"]) :
                rows["screen"][s].ts = rows["action"][a].sts

\* ------------------------------------------------------------------------
\* SpecOrder: the four reader threads of a running recording with window
\* capture on, the router and the writers, before any stop
\* ------------------------------------------------------------------------
OrderTasks == {"screen_event_reader", "window_event_reader",
               "keyboard_event_reader", "mouse_event_reader",
               "event_processor", "action", "screen", "window"}

InitOrder ==
    InitWith(PersistConfig, STOP_SEQUENCES, MaxEvents, OrderTasks, "running")

NextOrder ==
    \/ \E r \in OrderTasks \cap (Readers \ Listeners) :
          \/ PollReaderRead(r)
          \/ ReaderPut(r)
    \/ \E r \in OrderTasks \cap Listeners :
          \/ \E key \in CallbackKeys(r) : CallbackRead(r, key)
          \/ CallbackPut(r)
    \/ RouterBlock
    \/ RouterStep
    \/ \E k \in OrderTasks \cap WriterKinds : WriterWrite(k)

SpecOrder == InitOrder /\ [][NextOrder]_vars

\* C10: the rows of each kind, in id order, have non-decreasing timestamps
C10_RowsOrderedByTimestamp ==
    \A k \in EVENT_TYPES :
        \A i, j \in 1..Len(rows[k]) :
            i < j => rows[k][i].ts <= rows[k][j].ts

\* ------------------------------------------------------------------------
\* SpecWrite: the router and the writers in their loops, under every
\* configuration, fed every sequence of inbox events
\* ------------------------------------------------------------------------
\* inbox events in the router-and-writers specification
MaxWrites == 3

WriteTasks == {"event_processor"} \cup WriterKinds

InitWrite ==
    \E c \in Configs :
        InitWith(c, STOP_SEQUENCES, MaxWrites, WriteTasks, "running")

NextWrite ==
    \/ \E type \in EVENT_TYPES :
          \E ts \in (RecordingTimestamp + 1)..(RecordingTimestamp + MaxTs) :
             InboxPut(type, ts)
    \/ RouterStep
    \/ \E k \in WriteTasks \cap WriterKinds : WriterWrite(k)

SpecWrite == InitWrite /\ [][NextWrite]_vars

\* position in the router's intake of the event object e (0 if never taken)
TakenPos(e) ==
    IF \E i \in 1..Len(taken) : taken[i].id = e.id
    THEN CHOOSE i \in 1..Len(taken) : taken[i].id = e.id
    ELSE 0

\* C11: for every writer queue, the rows written followed by the events
\* still queued are events the router took, in the order it took them
C11_RouterKeepsOrder ==
    \A k \in WriterKinds :
        /\ \A i \in 1..Len(Put(k)) : TakenPos(Put(k)[i]) > 0
        /\ \A i, j \in 1..Len(Put(k)) :
              i < j => TakenPos(Put(k)[i]) < TakenPos(Put(k)[j])

\* two frames put on the video queue, the second with a timestamp not above
\* the first one's, the first one written, and an action row written
C11_Witness ==
    /\ Len(Put("screen/video")) >= 2
    /\ Len(rows["screen/video"]) >= 1
    /\ Put("screen/video")[2].ts <= Put("screen/video")[1].ts
    /\ Len(rows["action"]) >= 1

\* the i-th event taken came with a timestamp not greater than prev_event's;
\* prev_event is the event taken just before when that one was no action
\* (an action may have left the loop body early, before prev_event = event)
Regressed(i) ==
    /\ i > 1
    /\ taken[i - 1].type # "action"
    /\ taken[i].ts <= taken[i - 1].ts

\* the event object e is on some writer queue or in some table
Routed(e) == \E k \in WriterKinds : e.id \in Ids(Put(k))

\* C12: an event taken with a timestamp not greater than the previous
\* event's is dropped: it is put on no writer queue and does not become
\* prev_screen_event or prev_window_event
C12_RegressionDropped ==
    \A i \in 1..Len(taken) :
        Regressed(i) =>
            /\ ~Routed(taken[i])
            /\ prev_screen_event.id # taken[i].id
            /\ prev_window_event.id # taken[i].id

\* the i-th event taken is an action that came before any screen event or,
\* with window capture on, before any window event
ActionWithoutContext(i) ==
    /\ taken[i].type = "action"
    /\ \/ \A j \in 1..(i - 1) : taken[j].type # "screen"
       \/ /\ config.RECORD_WINDOW_DATA
          /\ \A j \in 1..(i - 1) : taken[j].type # "window"

\* the router is about to take an action that lacks its context
TakesActionWithoutContext ==
    /\ routerPc \in {"loop", "get"}
    /\ event_q # <<>>
    /\ Head(event_q).type = "action"
    /\ \/ prev_screen_event = NoEvent
       \/ config.RECORD_WINDOW_DATA /\ prev_window_event = NoEvent

\* C13: taking an action that came before any screen event (or, with window
\* capture on, before any window event) changes no writer queue, no counter,
\* neither prev event and neither saved timestamp, and the action never
\* reaches a writer queue or a table
C13_ActionWithoutContextDropped ==
    /\ [][(TakesActionWithoutContext /\ event_q' = Tail(event_q)) =>
             UNCHANGED <<write_q, num_events, prev_screen_event,
                         prev_window_event, prev_saved_screen_timestamp,
                         prev_saved_window_timestamp, rows>>]_vars
    /\ [](\A i \in 1..Len(taken) :
             ActionWithoutContext(i) => ~Routed(taken[i]))

\* an action taken first was dropped, and the action taken after the next
\* screen event has been written
C13_Witness ==
    /\ Len(taken) = 3
    /\ taken[1].type = "action"
    /\ taken[2].type = "screen"
    /\ taken[3].type = "action"
    /\ Len(rows["action"]) = 1
    /\ rows["action"][1].id = taken[3].id

\* ------------------------------------------------------------------------
\* The video encoder (video.py) as the video writer process drives it
\* ------------------------------------------------------------------------
\* ticks of the model's clock per second: the resolution at which the float
\* timestamps of the source are represented
TicksPerSecond == 1000

\* fps of initialize_video_writer and of VideoWriter; the stream's
\* average_rate
Fps == 24

\* base_timestamp of initialize_video_writer: utils.get_timestamp() read by
\* the video writer process right after its set_start_time(recording.timestamp)
VideoStart == RecordingTimestamp + 1

\* int(x) of the quotient n / d: truncation toward zero
Trunc(n, d) == IF n >= 0 THEN n \div d ELSE -((-n) \div d)

\* int(time_diff * float(Fraction(average_rate)))
PtsOf(timestamp, video_start_timestamp) ==
    Trunc((timestamp - video_start_timestamp) * Fps, TicksPerSecond)

\* write_video_frame without its `if pts <= last_pts` correction
write_video_frameUnguarded(timestamp, video_start_timestamp, last_pts) ==
    PtsOf(timestamp, video_start_timestamp)

\* write_video_frame (and the same lines of VideoWriter.write_frame and
\* VideoWriter.close): the PTS given to the frame, which is the new last_pts
write_video_frame(timestamp, video_start_timestamp, last_pts) ==
    LET pts == PtsOf(timestamp, video_start_timestamp)
    IN  IF pts <= last_pts THEN last_pts + 1 ELSE pts

\* a frame handed to the codec: its source timestamp and its PTS
Frame(ts, pts) == [ts |-> ts, pts |-> pts]

\* write_video_event: the frames one event adds, given state["last_pts"];
\* the event is written num_copies = 2 times when last_pts = 0
write_video_event(event, last_pts) ==
    LET p1 == write_video_frame(event.ts, VideoStart, last_pts)
        p2 == write_video_frame(event.ts, VideoStart, p1)
    IN  IF last_pts # 0
        THEN <<Frame(event.ts, p1)>>
        ELSE <<Frame(event.ts, p1), Frame(event.ts, p2)>>

\* state["last_pts"] after the frames fs: 0 from video_pre_callback
LastPts(fs) == IF fs = <<>> THEN 0 ELSE fs[Len(fs)].pts

\* the frames the write loop has handed to the codec after the first n
\* video events
RECURSIVE WrittenFrames(_, _)
WrittenFrames(events, n) ==
    IF n = 0 THEN <<>>
    ELSE LET before == WrittenFrames(events, n - 1)
         IN  before \o write_video_event(events[n], LastPts(before))

\* finalize_video_writer: state["last_frame"] once more, as a key frame
finalize_video_writer(fs) ==
    LET last == fs[Len(fs)]
    IN  Append(fs, Frame(last.ts, write_video_frame(last.ts, VideoStart, last.pts)))

\* every frame handed to the codec so far in this recording
Encoded ==
    LET fs == WrittenFrames(rows["screen/video"], Len(rows["screen/video"]))
    IN  IF writerPc["screen/video"] = "done" THEN finalize_video_writer(fs)
        ELSE fs

\* VideoWriter.write_frame for the timestamps tss[1..n]: _start_time is the
\* first timestamp, _last_pts starts at -1, each frame is written once
RECURSIVE VideoWriter_write_frame(_, _)
VideoWriter_write_frame(tss, n) ==
    IF n = 0 THEN <<>>
    ELSE LET before == VideoWriter_write_frame(tss, n - 1)
             last == IF before = <<>> THEN -1 ELSE before[Len(before)].pts
         IN  Append(before, Frame(tss[n], write_video_frame(tss[n], tss[1], last)))

\* VideoWriter.close: the last frame once more if there is one
VideoWriter_close(tss, fs) ==
    IF fs = <<>> THEN fs
    ELSE LET last == fs[Len(fs)]
         IN  Append(fs, Frame(last.ts, write_video_frame(last.ts, tss[1], last.pts)))

\* the frames a VideoWriter hands to the codec when it is given the frames of
\* this recording, and closed when the video writer process ends
VideoWriterEncoded ==
    LET tss == [i \in 1..Len(rows["screen/video"]) |-> rows["screen/video"][i].ts]
        fs == VideoWriter_write_frame(tss, Len(tss))
    IN  IF writerPc["screen/video"] \in {"done", "raised"}
        THEN VideoWriter_close(tss, fs) ELSE fs

\* recording.video_start_time: crud.update_video_start_time is called by
\* video_pre_callback, before the write loop, with base_timestamp
video_start_time ==
    IF writerPc["screen/video"] \in {"off", "start"} THEN NoTs ELSE VideoStart

\* ------------------------------------------------------------------------
\* SpecVideo: the video writer process, fed every sequence of frames
\* ------------------------------------------------------------------------
\* video events put on the video queue
MaxFrames == 3

\* timestamps of those events: before the video start, at it, within the
\* same frame interval, and one or several frame intervals later
FrameTimes == {RecordingTimestamp, VideoStart, VideoStart + 20,
               VideoStart + 50, VideoStart + 150, VideoStart + 300}

VideoConfigs == {c \in Configs : /\ c.RECORD_VIDEO
                                 /\ ~c.RECORD_WINDOW_DATA
                                 /\ ~c.RECORD_BROWSER_EVENTS}

\* the router puts a screen event on the video queue (process_event with
\* video_write_q and num_video_events)
VideoPut(ts) ==
    /\ budget > 0
    /\ ~terminate_processing
    /\ write_q' = process_event(write_q, "screen/video",
                                [Event("screen", "") EXCEPT !.ts = ts])
    /\ num_events' = Incr(num_events, "screen/video")
    /\ perf' = PerfCounterNow
    /\ budget' = budget - 1
    /\ UNCHANGED <<libVars, auxVars, perfVars, config, stop_sequences, event_q, terminate_processing,
                   recordPc, recorderPc, rows, writerPc, start_time,
                   start_perf_counter, last_timestamp, routerPc,
                   prev_screen_event, prev_window_event,
                   prev_saved_screen_timestamp, prev_saved_window_timestamp,
                   taken>>
    /\ UNCHANGED readerVars /\ UNCHANGED stopVars

InitVideo ==
    \E c \in VideoConfigs :
        InitWith(c, STOP_SEQUENCES, MaxFrames, {"screen/video"}, "created")

NextVideo ==
    \/ \E ts \in FrameTimes : VideoPut(ts)
    \/ WriterStart("screen/video")
    \/ WriterWrite("screen/video")
    \/ WriterExit("screen/video")
    \/ RecorderStop

SpecVideo == InitVideo /\ [][NextVideo]_vars

\* C14: the video writer process never ends with an error, whatever number
\* of frames (zero included) it has written when it leaves its loop.
C14_VideoWriterEndsCleanly == writerPc["screen/video"] # "raised"

StrictlyIncreasingPts(fs) ==
    \A i, j \in 1..Len(fs) : i < j => fs[i].pts < fs[j].pts

\* C15: the PTS values handed to the codec are strictly increasing in the
\* order the frames are written, for every sequence of frame timestamps
\* (equal, decreasing, earlier than the video start), the final key frame
\* included; for the video writer process and for a VideoWriter alike.
C15_PtsStrictlyIncreasing ==
    /\ StrictlyIncreasingPts(Encoded)
    /\ StrictlyIncreasingPts(VideoWriterEncoded)

\* three frames were written, the second with the timestamp of the first and
\* the third with a timestamp before the video start, and the writer has
\* finalized
C15_Witness ==
    /\ writerPc["screen/video"] = "done"
    /\ Len(rows["screen/video"]) = 3
    /\ rows["screen/video"][1].ts = VideoStart + 50
    /\ rows["screen/video"][2].ts = VideoStart + 50
    /\ rows["screen/video"][3].ts < VideoStart
    /\ Len(Encoded) = 5
    /\ Len(VideoWriterEncoded) = 4

\* C16: of two frames handed to the codec in a recording, the one with the
\* smaller PTS has the smaller source timestamp.
C16_PtsOrderIsTimeOrder ==
    \A i, j \in 1..Len(Encoded) :
        Encoded[i].pts < Encoded[j].pts => Encoded[i].ts < Encoded[j].ts

\* C17: once recording.video_start_time is written, a first frame has been
\* received by the encoder and the value is that frame's timestamp.
C17_VideoStartIsFirstFrame ==
    video_start_time # NoTs =>
        /\ Encoded # <<>>
        /\ video_start_time = Encoded[1].ts

\* ------------------------------------------------------------------------
\* SpecScenario: one action-gated recording with a fixed input: screen
\* frames at 1.000 s and 1.042 s, a click at 1.050 s, a screen frame at
\* 1.083 s, then stop
\* ------------------------------------------------------------------------
ScenarioEvents ==
    << [type |-> "screen", ts |-> 1000], [type |-> "screen", ts |-> 1042],
       [type |-> "action", ts |-> 1050], [type |-> "screen", ts |-> 1083] >>

ScenarioTasks == {"event_processor", "action", "screen", "screen/video"}

\* the screen reader or the mouse listener puts the next event of the input
ScenarioPut ==
    /\ budget > 0
    /\ LET e == ScenarioEvents[Len(ScenarioEvents) - budget + 1]
       IN  InboxPut(e.type, e.ts)

\* nothing is in flight: the input is on the inbox or beyond, the router has
\* taken what it will take, and every writer has written what it was given
Quiescent ==
    /\ budget = 0
    /\ event_q = <<>> \/ routerPc = "raised"
    /\ routerPc # "start"
    /\ \A k \in ScenarioTasks \cap WriterKinds :
          writerPc[k] = "loop" /\ write_q[k] = <<>>

\* the recording is stopped once the input has been processed
ScenarioStop == Quiescent /\ RecorderStop

InitScenario ==
    InitWith(DefaultConfig, STOP_SEQUENCES, Len(ScenarioEvents),
             ScenarioTasks, "created")

NextScenario ==
    \/ ScenarioPut
    \/ RouterStart
    \/ RouterBlock
    \/ RouterStep
    \/ \E k \in ScenarioTasks \cap WriterKinds : WriterStart(k)
    \/ \E k \in ScenarioTasks \cap WriterKinds : WriterWrite(k)
    \/ \E k \in ScenarioTasks \cap WriterKinds : WriterExit(k)
    \/ ScenarioStop

SpecScenario == InitScenario /\ [][NextScenario]_vars

\* every writer process of the scenario has ended
ScenarioEnded ==
    \A k \in ScenarioTasks \cap WriterKinds : writerPc[k] \in {"done", "raised"}

\* what the scenario leaves in the screenshot table: one row, of the frame
\* at 1.042 s
OneScreenshotRow ==
    /\ Len(rows["screen"]) = 1
    /\ rows["screen"][1].ts = ScenarioEvents[2].ts

\* C18: when the scenario has ended there is exactly one screenshot row, of
\* the frame at 1.042 s, and exactly one encoded video frame, whose source
\* timestamp is 1.042 s.
C18_GatedScenario ==
    ScenarioEnded =>
        /\ OneScreenshotRow
        /\ Len(Encoded) = 1
        /\ Encoded[1].ts = ScenarioEvents[2].ts

\* ------------------------------------------------------------------------
\* SpecJoin: record() and a video writer whose container may hang on close
\* ------------------------------------------------------------------------
\* finalize_video_writer where video_container.close() does not return
\* ("closing ... sometimes hangs"): close_thread.join() has no timeout, so
\* the video writer process stays in its post_callback
VideoCloseHangs ==
    /\ writerPc["screen/video"] = "loop"
    /\ terminate_processing
    /\ write_q["screen/video"] = <<>>
    /\ rows["screen/video"] # <<>>
    /\ writerPc' = [writerPc EXCEPT !["screen/video"] = "closing"]
    /\ UNCHANGED <<libVars, auxVars, perfVars, config, stop_sequences, event_q, terminate_processing,
                   recordPc, recorderPc, budget, rows>>
    /\ UNCHANGED clockVars /\ UNCHANGED readerVars /\ UNCHANGED routerVars
    /\ UNCHANGED stopVars

\* one step of the video writer process once it is in its loop
VideoWriterStep ==
    \/ WriterWrite("screen/video")
    \/ WriterExit("screen/video")
    \/ VideoCloseHangs

InitJoin ==
    \E c \in VideoConfigs :
        InitWith(c, STOP_SEQUENCES, MaxFrames, {"screen/video"}, "running")

NextJoin ==
    \/ \E ts \in FrameTimes : VideoPut(ts)
    \/ WriterWrite("screen/video")
    \/ WriterExit("screen/video")
    \/ VideoCloseHangs
    \/ RecordStarted
    \/ RecordStop
    \/ RecordJoin
    \/ RecorderStop

\* The video writer process and the record thread are scheduled again and
\* again; the frames and the caller's stop() get no fairness.
FairJoin ==
    /\ WF_vars(VideoWriterStep)
    /\ WF_vars(RecordThread)

SpecJoin == InitJoin /\ [][NextJoin]_vars /\ FairJoin

\* C19: once terminate is set and record() is joining its tasks, record()
\* eventually returns, also when the video writer never exits.
C19_JoinReturns ==
    (terminate_processing /\ recordPc = "join") ~> (recordPc = "returned")

\* ------------------------------------------------------------------------
\* SpecShutdown: the router, the four event writers and record(), from the
\* running recording to the return of record()
\* ------------------------------------------------------------------------
ShutdownTasks == {"event_processor", "action", "screen", "window", "browser"}

ShutdownConfig == [RECORD_WINDOW_DATA |-> TRUE, RECORD_VIDEO |-> FALSE,
                   RECORD_FULL_VIDEO |-> FALSE, RECORD_BROWSER_EVENTS |-> TRUE]

InitShutdown ==
    InitWith(ShutdownConfig, STOP_SEQUENCES, MaxWrites, ShutdownTasks, "running")

NextShutdown ==
    \/ \E type \in EVENT_TYPES : InboxPut(type, TimestampNow)
    \/ RouterBlock
    \/ RouterStep
    \/ RouterExit
    \/ \E k \in ShutdownTasks \cap WriterKinds : WriterWrite(k)
    \/ \E k \in ShutdownTasks \cap WriterKinds : WriterExit(k)
    \/ RecordStarted
    \/ RecordStop
    \/ RecordInterrupt
    \/ RecordJoin
    \/ RecorderStop

SpecShutdown == InitShutdown /\ [][NextShutdown]_vars

\* crud.post_process_events(session, recording) is executed by the step of
\* record() that ends in its return
PostProcessRuns == recordPc # "returned" /\ recordPc' = "returned"

NoId == 0

Max(S) == CHOOSE x \in S : \A y \in S : y <= x

\* {row.timestamp: row.id for row in _get(session, table, recording.id)}:
\* of several rows with one timestamp the one listed last stays in the dict
TimestampToIdMap(kind) ==
    [ts \in {rows[kind][i].ts : i \in 1..Len(rows[kind])} |->
        Max({i \in 1..Len(rows[kind]) : rows[kind][i].ts = ts})]

\* a dict.get that answers with a row id for a missing key
DictGetAny(map, key) == IF key \in DOMAIN map THEN map[key] ELSE 1

\* dict.get(key): None for a missing key
DictGet(map, key) == IF key \in DOMAIN map THEN map[key] ELSE NoId

\* the action rows as post_process_events leaves them
post_process_events ==
    [i \in 1..Len(rows["action"]) |->
        [timestamp |-> rows["action"][i].ts,
         screenshot_timestamp |-> rows["action"][i].sts,
         window_event_timestamp |-> rows["action"][i].wts,
         screenshot_id |->
            DictGet(TimestampToIdMap("screen"), rows["action"][i].sts),
         window_event_id |->
            DictGet(TimestampToIdMap("window"), rows["action"][i].wts)]]

\* id is the id of a row of the kind with this timestamp, or None when the
\* table has no row with this timestamp
Resolves(kind, id, ts) ==
    IF \E i \in 1..Len(rows[kind]) : rows[kind][i].ts = ts
    THEN id \in 1..Len(rows[kind]) /\ rows[kind][id].ts = ts
    ELSE id = NoId

\* C21: after post-processing, the screenshot_id (window_event_id) of every
\* action row is the id of a screenshot (window event) row whose timestamp
\* is the action's screenshot_timestamp (window_event_timestamp), and it is
\* None exactly when there is no such row.
C21_PostProcessLinks ==
    recordPc = "returned" =>
        \A i \in 1..Len(rows["action"]) :
            LET a == post_process_events[i]
            IN  /\ Resolves("screen", a.screenshot_id, a.screenshot_timestamp)
                /\ Resolves("window", a.window_event_id, a.window_event_timestamp)

\* record() has returned with an action row linked to its screenshot row
\* and to its window event row
C21_Witness ==
    /\ recordPc = "returned"
    /\ Len(rows["action"]) = 1
    /\ post_process_events[1].screenshot_id = 1
    /\ post_process_events[1].window_event_id = 1

\* ------------------------------------------------------------------------
\* The capture directory between recordings: create_recording, the action
\* table, CaptureSession
\* ------------------------------------------------------------------------
\* every variable of a recording in progress (all but config and rows)
recorderVars == <<stop_sequences, perf, start_time, start_perf_counter,
                  last_timestamp, event_q, write_q, num_events,
                  terminate_processing, stop_sequence_detected,
                  stop_sequence_indices, listener_raised, readerPc, pending,
                  started_event, brConn, ws_server_instance, routerPc,
                  prev_screen_event, prev_window_event,
                  prev_saved_screen_timestamp, prev_saved_window_timestamp,
                  taken, writerPc, recordPc, recorderPc, budget, presses>>

\* no recording is in progress: no task exists, the queues are empty
NoRecording ==
    /\ stop_sequences = STOP_SEQUENCES
    /\ perf = 0
    /\ start_time = RecordingTimestamp
    /\ start_perf_counter = 0
    /\ last_timestamp = NoTs
    /\ event_q = <<>>
    /\ write_q = [k \in WriterKinds |-> <<>>]
    /\ num_events = [k \in WriterKinds |-> 0]
    /\ terminate_processing = FALSE
    /\ stop_sequence_detected = FALSE
    /\ stop_sequence_indices = [i \in 1..Len(STOP_SEQUENCES) |-> 0]
    /\ listener_raised = FALSE
    /\ readerPc = [r \in Readers |-> "off"]
    /\ pending = [r \in Readers |-> NoEvent]
    /\ started_event = [t \in AllTasks |-> FALSE]
    /\ brConn = "none"
    /\ ws_server_instance = "init"
    /\ routerPc = "off"
    /\ prev_screen_event = NoEvent
    /\ prev_window_event = NoEvent
    /\ prev_saved_screen_timestamp = 0
    /\ prev_saved_window_timestamp = 0
    /\ taken = <<>>
    /\ writerPc = [k \in WriterKinds |-> "off"]
    /\ recordPc = "none"
    /\ recorderPc = "none"
    /\ budget = 0
    /\ presses = <<>>
    /\ perf_q = {}
    /\ perf_stats = {}
    /\ perfPc = "off"
    /\ terminate_perf_event = FALSE
    /\ prev_window_data = NoWindowData
    /\ chunked = NoChunks
    /\ storage = EmptyStorage

\* action rows a test or a recording inserts
MaxRows == 2

\* the recording CaptureSession.load takes: session.query(Recording).first()
LoadedId == 1

\* names a row can carry: the five the converter knows, and any other
ActionNames == {"move", "click", "scroll", "press", "release", "other"}

\* the mouse_pressed column: True, False or NULL
PressedValues == {"True", "False", "None"}

\* timestamps of inserted rows
RowTimes == {RecordingTimestamp + 1, RecordingTimestamp + 2}

\* create_db(db_path): the engine creates the file if it is absent, and
\* Base.metadata.create_all adds the missing tables; existing tables and rows
\* are left as they are and nothing is raised
create_db ==
    /\ db_file \in {"absent", "sqlite"}
    /\ db_file' = "sqlite"

\* create_recording(task_description, capture_dir), the first call of
\* record(): os.makedirs(exist_ok=True), create_db, crud.insert_recording
create_recording ==
    /\ create_db
    /\ Len(recordings) < MaxRows
    /\ recordings' = Append(recordings, RecordingTimestamp + Len(recordings))
    /\ UNCHANGED <<rows, open_sessions, load_result, override, config>>
    /\ UNCHANGED recorderVars /\ UNCHANGED perfVars /\ UNCHANGED auxVars

\* create_db(db_path) alone: a database with tables and no recording row
CreateEmptyDb ==
    /\ create_db
    /\ db_file = "absent"
    /\ UNCHANGED <<recordings, rows, open_sessions, load_result, override, config>>
    /\ UNCHANGED recorderVars /\ UNCHANGED perfVars /\ UNCHANGED auxVars

\* a file that is not a database is written at db_path
WriteGarbage ==
    /\ db_file = "absent"
    /\ db_file' = "corrupt"
    /\ UNCHANGED <<recordings, rows, open_sessions, load_result, override, config>>
    /\ UNCHANGED recorderVars /\ UNCHANGED perfVars /\ UNCHANGED auxVars

\* crud.insert_action_event(session, recording, timestamp, data) for the
\* recording created last
insert_action_event(ts, name, pressed, x, button, key) ==
    /\ db_file = "sqlite"
    /\ recordings # <<>>
    /\ rows' = [rows EXCEPT !["action"] =
                  Append(@, [id |-> Len(@) + 1, rid |-> Len(recordings),
                             ts |-> ts, name |-> name,
                             mouse_pressed |-> pressed, mouse_x |-> x,
                             mouse_button_name |-> button, key_char |-> key,
                             disabled |-> FALSE])]
    /\ UNCHANGED <<db_file, recordings, open_sessions, load_result, override, config>>
    /\ UNCHANGED recorderVars /\ UNCHANGED perfVars /\ UNCHANGED auxVars

\* row.disabled = True; session.commit()
Disable(i) ==
    /\ i \in 1..Len(rows["action"])
    /\ ~rows["action"][i].disabled
    /\ rows' = [rows EXCEPT !["action"][i].disabled = TRUE]
    /\ UNCHANGED <<db_file, recordings, open_sessions, load_result, override, config>>
    /\ UNCHANGED recorderVars /\ UNCHANGED perfVars /\ UNCHANGED auxVars

\* CaptureSession.load with the no-recording branch leaving its session open
LoadOutcomeLeaky ==
    CASE db_file = "absent" ->
            [result |-> "FileNotFoundError", opened |-> 0, closed |-> 0]
      [] db_file = "corrupt" ->
            [result |-> "DatabaseError", opened |-> 1, closed |-> 1]
      [] recordings = <<>> ->
            [result |-> "FileNotFoundError", opened |-> 1, closed |-> 0]
      [] OTHER ->
            [result |-> "CaptureSession", opened |-> 1, closed |-> 0]

\* what CaptureSession.load does for each state of db_path: the exists()
\* test raises before any session is opened; the query on a file that is no
\* database raises, and the except clause closes the session; no recording
\* row closes the session and raises; otherwise the CaptureSession keeps it
LoadOutcome ==
    CASE db_file = "absent" ->
            [result |-> "FileNotFoundError", opened |-> 0, closed |-> 0]
      [] db_file = "corrupt" ->
            [result |-> "DatabaseError", opened |-> 1, closed |-> 1]
      [] recordings = <<>> ->
            [result |-> "FileNotFoundError", opened |-> 1, closed |-> 1]
      [] OTHER ->
            [result |-> "CaptureSession", opened |-> 1, closed |-> 0]

\* CaptureSession.load(capture_dir)
CaptureSession_load ==
    /\ load_result # "CaptureSession"
    /\ load_result' = LoadOutcome.result
    /\ open_sessions' = open_sessions + LoadOutcome.opened - LoadOutcome.closed
    /\ UNCHANGED <<db_file, recordings, rows, override, config>>
    /\ UNCHANGED recorderVars /\ UNCHANGED perfVars /\ UNCHANGED auxVars

\* CaptureSession.close()
CaptureSession_close ==
    /\ load_result = "CaptureSession"
    /\ load_result' = "closed"
    /\ open_sessions' = open_sessions - 1
    /\ UNCHANGED <<db_file, recordings, rows, override, config>>
    /\ UNCHANGED recorderVars /\ UNCHANGED perfVars /\ UNCHANGED auxVars

\* ORDER BY timestamp: a row goes after the rows that are not later
RECURSIVE InsertByTimestamp(_, _)
InsertByTimestamp(sorted, row) ==
    IF sorted = <<>> \/ sorted[Len(sorted)].ts <= row.ts
    THEN Append(sorted, row)
    ELSE Append(InsertByTimestamp(SubSeq(sorted, 1, Len(sorted) - 1), row),
                sorted[Len(sorted)])

RECURSIVE OrderByTimestamp(_)
OrderByTimestamp(table) ==
    IF table = <<>> THEN <<>>
    ELSE InsertByTimestamp(OrderByTimestamp(SubSeq(table, 1, Len(table) - 1)),
                           table[Len(table)])

\* Recording.action_events: the rows of the recording, ORDER BY timestamp
action_events(rid) ==
    OrderByTimestamp(SelectSeq(rows["action"], LAMBDA r : r.rid = rid))

\* a primitive event: the fields the merging engine reads
Primitive(type, ts, x, button, key) ==
    [type |-> type, timestamp |-> ts, x |-> x, button |-> button,
     key |-> key, text |-> <<>>, keys |-> <<>>, dx |-> 0, children |-> <<>>]

\* a conversion that tests mouse_pressed for truth: NULL becomes mouse.up
_convert_action_eventTruthy(db_event) ==
    CASE db_event.name = "move" ->
            Primitive("mouse.move", db_event.ts, db_event.mouse_x, "none", "none")
      [] db_event.name = "click" /\ db_event.mouse_pressed = "True" ->
            Primitive("mouse.down", db_event.ts, db_event.mouse_x,
                      db_event.mouse_button_name, "none")
      [] db_event.name = "click" /\ db_event.mouse_pressed # "True" ->
            Primitive("mouse.up", db_event.ts, db_event.mouse_x,
                      db_event.mouse_button_name, "none")
      [] db_event.name = "scroll" ->
            Primitive("mouse.scroll", db_event.ts, db_event.mouse_x, "none", "none")
      [] db_event.name = "press" ->
            Primitive("key.down", db_event.ts, 0, "none", db_event.key_char)
      [] db_event.name = "release" ->
            Primitive("key.up", db_event.ts, 0, "none", db_event.key_char)
      [] OTHER -> Primitive("None", db_event.ts, 0, "none", "none")

\* _convert_action_event(db_event): the event of a row, type "None" for the
\* rows it returns None for (a click whose mouse_pressed is NULL, a name it
\* does not know)
_convert_action_event(db_event) ==
    CASE db_event.name = "move" ->
            Primitive("mouse.move", db_event.ts, db_event.mouse_x, "none", "none")
      [] db_event.name = "click" /\ db_event.mouse_pressed = "True" ->
            Primitive("mouse.down", db_event.ts, db_event.mouse_x,
                      db_event.mouse_button_name, "none")
      [] db_event.name = "click" /\ db_event.mouse_pressed = "False" ->
            Primitive("mouse.up", db_event.ts, db_event.mouse_x,
                      db_event.mouse_button_name, "none")
      [] db_event.name = "scroll" ->
            Primitive("mouse.scroll", db_event.ts, db_event.mouse_x, "none", "none")
      [] db_event.name = "press" ->
            Primitive("key.down", db_event.ts, 0, "none", db_event.key_char)
      [] db_event.name = "release" ->
            Primitive("key.up", db_event.ts, 0, "none", db_event.key_char)
      [] OTHER -> Primitive("None", db_event.ts, 0, "none", "none")

\* the conversions of a sequence of rows
Converted(table) == [i \in 1..Len(table) |-> _convert_action_event(table[i])]

\* CaptureSession.raw_events() on a given action table: disabled rows are
\* skipped, then rows whose conversion is None
raw_events_of(table) ==
    SelectSeq(Converted(SelectSeq(table, LAMBDA r : ~r.disabled)),
              LAMBDA e : e.type # "None")

\* CaptureSession.raw_events()
raw_events == raw_events_of(action_events(LoadedId))

\* an optional value: None is the empty sequence
None == <<>>
Some(v) == <<v>>

\* an ended_at that falls back to the start of the recording
ended_atOrStart ==
    IF action_events(LoadedId) # <<>>
    THEN Some(action_events(LoadedId)[Len(action_events(LoadedId))].ts)
    ELSE Some(recordings[LoadedId])

\* CaptureSession.ended_at: the timestamp of the last action row, or None
ended_at ==
    IF action_events(LoadedId) # <<>>
    THEN Some(action_events(LoadedId)[Len(action_events(LoadedId))].ts)
    ELSE None

\* CaptureSession.duration
duration ==
    IF ended_at # None THEN Some(ended_at[1] - recordings[LoadedId]) ELSE None

\* ------------------------------------------------------------------------
\* The event-merging engine (openadapt_capture.processing), from its
\* specification: five passes, each consuming the output of the one before
\* ------------------------------------------------------------------------
\* the double-click interval, 0.5 s, and distance, 5 pixels, that actions()
\* passes when the recording row has none
double_click_interval == TicksPerSecond \div 2
double_click_distance == 5

Abs(n) == IF n < 0 THEN -n ELSE n

\* the elements of a sequence at the indices in I, in order
RECURSIVE Pick(_, _)
Pick(events, I) ==
    IF events = <<>> THEN <<>>
    ELSE Pick(SubSeq(events, 1, Len(events) - 1), I)
           \o (IF Len(events) \in I THEN <<events[Len(events)]>> ELSE <<>>)

\* the key of event i is down just before event i
Held(events, i) ==
    \E j \in 1..(i - 1) :
        /\ events[j].type = "key.down"
        /\ events[j].key = events[i].key
        /\ \A k \in (j + 1)..(i - 1) :
              ~(events[k].type = "key.up" /\ events[k].key = events[i].key)

\* pass 1: a key.up with no matching prior key.down is dropped (the optional
\* dropping of a key.down that is never released is not configured)
remove_invalid_keyboard_events(events) ==
    Pick(events, {i \in 1..Len(events) :
                    events[i].type = "key.up" => Held(events, i)})

\* pass 2: of a maximal run of consecutive mouse.move events only the last
\* is kept
remove_redundant_mouse_move_events(events) ==
    Pick(events, {i \in 1..Len(events) :
                    events[i].type = "mouse.move"
                      => (i = Len(events) \/ events[i + 1].type # "mouse.move")})

\* a composite event with its children
Composite(type, first, text, keys, dx, children) ==
    [type |-> type, timestamp |-> first.timestamp, x |-> first.x,
     button |-> first.button, key |-> "none", text |-> text, keys |-> keys,
     dx |-> dx, children |-> children]

\* a mouse.down immediately followed by a mouse.up of the same button within
\* the double-click distance
IsClick(down, up) ==
    /\ down.type = "mouse.down"
    /\ up.type = "mouse.up"
    /\ down.button = up.button
    /\ Abs(down.x - up.x) <= double_click_distance

RECURSIVE MergeSingleClicks(_)
MergeSingleClicks(events) ==
    IF events = <<>> THEN <<>>
    ELSE IF Len(events) >= 2 /\ IsClick(events[1], events[2])
    THEN <<Composite("mouse.singleclick", events[1], <<>>, <<>>, 0,
                     <<events[1], events[2]>>)>>
           \o MergeSingleClicks(SubSeq(events, 3, Len(events)))
    ELSE <<events[1]>> \o MergeSingleClicks(Tail(events))

\* a second singleclick of the same button within the double-click interval
\* and distance
IsDoubleClick(first, second) ==
    /\ first.type = "mouse.singleclick"
    /\ second.type = "mouse.singleclick"
    /\ first.button = second.button
    /\ second.timestamp - first.timestamp <= double_click_interval
    /\ Abs(first.x - second.x) <= double_click_distance

RECURSIVE MergeDoubleClicks(_)
MergeDoubleClicks(events) ==
    IF events = <<>> THEN <<>>
    ELSE IF Len(events) >= 2 /\ IsDoubleClick(events[1], events[2])
    THEN <<Composite("mouse.doubleclick", events[1], <<>>, <<>>, 0,
                     events[1].children \o events[2].children)>>
           \o MergeDoubleClicks(SubSeq(events, 3, Len(events)))
    ELSE <<events[1]>> \o MergeDoubleClicks(Tail(events))

\* pass 3: click merge
merge_consecutive_mouse_click_events(events) ==
    MergeDoubleClicks(MergeSingleClicks(events))

\* a mouse.down, a move away by more than the double-click distance, and a
\* mouse.up of the same button (pass 2 left one move of each run)
IsDrag(down, move, up) ==
    /\ down.type = "mouse.down"
    /\ move.type = "mouse.move"
    /\ up.type = "mouse.up"
    /\ down.button = up.button
    /\ Abs(move.x - down.x) > double_click_distance

\* pass 4: drag detection
RECURSIVE detect_drag_events(_)
detect_drag_events(events) ==
    IF events = <<>> THEN <<>>
    ELSE IF Len(events) >= 3 /\ IsDrag(events[1], events[2], events[3])
    THEN <<Composite("mouse.drag", events[1], <<>>, <<>>,
                     events[3].x - events[1].x,
                     <<events[1], events[2], events[3]>>)>>
           \o detect_drag_events(SubSeq(events, 4, Len(events)))
    ELSE <<events[1]>> \o detect_drag_events(Tail(events))

IsKey(event) == event.type \in {"key.down", "key.up"}

\* the length of the run of key events that starts the sequence
RECURSIVE KeyRun(_)
KeyRun(events) ==
    IF events = <<>> \/ ~IsKey(events[1]) THEN 0
    ELSE 1 + KeyRun(Tail(events))

\* a sequence without its repeated elements, in order of first occurrence
RECURSIVE Dedup(_)
Dedup(list) ==
    IF list = <<>> THEN <<>>
    ELSE LET front == Dedup(SubSeq(list, 1, Len(list) - 1))
         IN IF \E i \in 1..Len(front) : front[i] = list[Len(list)]
            THEN front ELSE Append(front, list[Len(list)])

\* the characters a run of key events produces: one for each key.down of a
\* key that is not already down (an auto-repeat produces none)
TypedText(run) ==
    LET produced == Pick(run, {i \in 1..Len(run) :
                                 run[i].type = "key.down" /\ ~Held(run, i)})
    IN [i \in 1..Len(produced) |-> produced[i].key]

\* pass 5: a maximal run of key.down / key.up events becomes one key.type
RECURSIVE merge_consecutive_keyboard_events(_)
merge_consecutive_keyboard_events(events) ==
    IF events = <<>> THEN <<>>
    ELSE IF IsKey(events[1])
    THEN LET n == KeyRun(events)
             run == SubSeq(events, 1, n)
         IN <<Composite("key.type", events[1], TypedText(run),
                        Dedup([i \in 1..n |-> run[i].key]), 0, run)>>
              \o merge_consecutive_keyboard_events(SubSeq(events, n + 1, Len(events)))
    ELSE <<events[1]>> \o merge_consecutive_keyboard_events(Tail(events))

\* the passes with the redundant-move filter run before the keyboard filter
process_eventsMovesFirst(events) ==
    merge_consecutive_keyboard_events(
      detect_drag_events(
        merge_consecutive_mouse_click_events(
          remove_invalid_keyboard_events(
            remove_redundant_mouse_move_events(events)))))

\* process_events(events, double_click_interval, double_click_distance):
\* the five passes in order
process_events(events) ==
    merge_consecutive_keyboard_events(
      detect_drag_events(
        merge_consecutive_mouse_click_events(
          remove_redundant_mouse_move_events(
            remove_invalid_keyboard_events(events)))))

\* CaptureSession.actions(include_moves=False) on a given action table
actions_of(table) ==
    SelectSeq(process_events(raw_events_of(table)),
              LAMBDA e : e.type # "mouse.move")

\* CaptureSession.actions()
actions == actions_of(action_events(LoadedId))

InitCapture ==
    /\ NoRecording
    /\ config = DefaultConfig
    /\ rows = [k \in WriterKinds |-> <<>>]
    /\ db_file = "absent"
    /\ recordings = <<>>
    /\ open_sessions = 0
    /\ load_result = "none"
    /\ override = NoOverride

NextCapture ==
    \/ create_recording
    \/ CreateEmptyDb
    \/ WriteGarbage
    \/ \E ts \in RowTimes : \E name \in ActionNames : \E pressed \in PressedValues :
          /\ Len(rows["action"]) < MaxRows
          /\ name # "click" => pressed = "None"
          /\ insert_action_event(ts, name, pressed, 0, "left", "a")
    \/ \E i \in 1..MaxRows : Disable(i)
    \/ CaptureSession_load
    \/ CaptureSession_close

SpecCapture == InitCapture /\ [][NextCapture]_vars

\* C22: creating a recording database where a non-empty database exists
\* leaves that database unchanged: a second record() into the capture
\* directory adds no recording row.
C22_ExistingDatabaseKept ==
    [][recordings # <<>> => recordings' = recordings]_vars

\* C23: CaptureSession.load raises FileNotFoundError when recording.db is
\* absent or holds no recording row, and a load that fails leaves no session
\* open: the session it opened is closed before the error propagates.
C23_LoadFailsClosed ==
    [][(load_result' # load_result \/ open_sessions' # open_sessions)
         /\ load_result' # "closed"
       => /\ (db_file = "absent" \/ (db_file = "sqlite" /\ recordings = <<>>))
               => load_result' = "FileNotFoundError"
          /\ load_result' # "CaptureSession" => open_sessions' = open_sessions]_vars

C23_Witness ==
    /\ load_result = "FileNotFoundError"
    /\ db_file = "sqlite"
    /\ recordings = <<>>
    /\ open_sessions = 0

\* C24: for a recording with no action row, raw_events() is the empty list,
\* actions() yields nothing, and ended_at and duration are None.
C24_EmptyRecording ==
    load_result = "CaptureSession" /\ action_events(LoadedId) = <<>>
    => /\ raw_events = <<>>
       /\ actions = <<>>
       /\ ended_at = None
       /\ duration = None

C24_Witness ==
    /\ load_result = "CaptureSession"
    /\ action_events(LoadedId) = <<>>

\* the event type the contract gives for a row, "None" when it gives none
ExpectedType(row) ==
    CASE row.name = "move" -> "mouse.move"
      [] row.name = "click" /\ row.mouse_pressed = "True" -> "mouse.down"
      [] row.name = "click" /\ row.mouse_pressed = "False" -> "mouse.up"
      [] row.name = "scroll" -> "mouse.scroll"
      [] row.name = "press" -> "key.down"
      [] row.name = "release" -> "key.up"
      [] OTHER -> "None"

\* the event types raw_events() can return
EventTypes ==
    {"mouse.move", "mouse.down", "mouse.up", "mouse.scroll", "key.down", "key.up"}

\* sub is seq with some elements removed
RECURSIVE IsSubsequence(_, _)
IsSubsequence(sub, seq) ==
    IF sub = <<>> THEN TRUE
    ELSE IF seq = <<>> THEN FALSE
    ELSE IF sub[1] = seq[1] THEN IsSubsequence(Tail(sub), Tail(seq))
    ELSE IsSubsequence(sub, Tail(seq))

\* raw_events() is in timestamp order and holds, for each type and
\* timestamp, as many events as the loaded recording has enabled rows
\* that convert to that type at that timestamp, and no other event
RawEventsAreEnabledRows ==
    /\ \A i, j \in 1..Len(raw_events) :
          i < j => raw_events[i].timestamp <= raw_events[j].timestamp
    /\ \A i \in 1..Len(raw_events) : raw_events[i].type \in EventTypes
    /\ \A type \in EventTypes : \A ts \in RowTimes :
          Cardinality({i \in 1..Len(raw_events) :
                         raw_events[i].type = type /\ raw_events[i].timestamp = ts})
          = Cardinality({i \in 1..Len(rows["action"]) :
                           /\ rows["action"][i].rid = LoadedId
                           /\ ~rows["action"][i].disabled
                           /\ ExpectedType(rows["action"][i]) = type
                           /\ rows["action"][i].ts = ts})

\* C25: raw_events() returns, in timestamp order, exactly one event for each
\* stored action row that is enabled and convertible, of the type the row's
\* name and mouse_pressed give; disabled rows and clicks with mouse_pressed
\* NULL contribute nothing, and disabling a row only removes events.
C25_RawEvents ==
    /\ [](load_result = "CaptureSession" => RawEventsAreEnabledRows)
    /\ [][(\E i \in 1..Len(rows["action"]) :
              ~rows["action"][i].disabled /\ rows'["action"][i].disabled)
          => IsSubsequence(raw_events', raw_events)]_vars

C25_Witness ==
    /\ load_result = "CaptureSession"
    /\ Len(raw_events) = 1
    /\ \E i, k \in 1..Len(rows["action"]) :
          /\ rows["action"][i].rid = LoadedId /\ rows["action"][i].disabled
          /\ rows["action"][i].name = "press"
          /\ rows["action"][k].rid = LoadedId /\ ~rows["action"][k].disabled
          /\ rows["action"][k].name = "click"
          /\ rows["action"][k].mouse_pressed = "False"
          /\ rows["action"][k].ts < rows["action"][i].ts

\* ------------------------------------------------------------------------
\* config_override
\* ------------------------------------------------------------------------
\* the Settings attributes of the model
ConfigAttrs == DOMAIN DefaultConfig

\* RecordingConfig values: an attribute outside the domain is a None field
RecordingConfigs == UNION {[F -> BOOLEAN] : F \in SUBSET ConfigAttrs}

\* config_override(recording_config) up to its yield: the original of
\* every non-None field is saved and the field is applied
config_override_enter(c, recording_config) ==
    /\ override[c].pc # "body"
    /\ override' = [override EXCEPT ![c] =
                      [pc |-> "body", rc |-> recording_config,
                       originals |-> [a \in DOMAIN recording_config |-> config[a]],
                       entry |-> config]]
    /\ config' = [a \in ConfigAttrs |->
                    IF a \in DOMAIN recording_config
                    THEN recording_config[a] ELSE config[a]]
    /\ UNCHANGED <<db_file, recordings, open_sessions, load_result, rows>>
    /\ UNCHANGED recorderVars /\ UNCHANGED perfVars /\ UNCHANGED auxVars

\* a config_override that restores after its yield without a finally clause
config_override_exitNoFinally(c, how) ==
    /\ override[c].pc = "body"
    /\ override' = [override EXCEPT ![c].pc = how]
    /\ config' = [a \in ConfigAttrs |->
                    IF a \in DOMAIN override[c].originals /\ how = "exited"
                    THEN override[c].originals[a] ELSE config[a]]
    /\ UNCHANGED <<db_file, recordings, open_sessions, load_result, rows>>
    /\ UNCHANGED recorderVars /\ UNCHANGED perfVars /\ UNCHANGED auxVars

\* the block of config_override ends, normally (how = "exited") or by an
\* exception of its body (how = "raised"): the finally clause restores the
\* saved originals
config_override_exit(c, how) ==
    /\ override[c].pc = "body"
    /\ override' = [override EXCEPT ![c].pc = how]
    /\ config' = [a \in ConfigAttrs |->
                    IF a \in DOMAIN override[c].originals
                    THEN override[c].originals[a] ELSE config[a]]
    /\ UNCHANGED <<db_file, recordings, open_sessions, load_result, rows>>
    /\ UNCHANGED recorderVars /\ UNCHANGED perfVars /\ UNCHANGED auxVars

InitConfig ==
    /\ NoRecording
    /\ config \in Configs
    /\ rows = [k \in WriterKinds |-> <<>>]
    /\ db_file = "absent"
    /\ recordings = <<>>
    /\ open_sessions = 0
    /\ load_result = "none"
    /\ override = NoOverride

\* one config_override at a time
NextConfig ==
    \/ \E recording_config \in RecordingConfigs : config_override_enter(1, recording_config)
    \/ \E how \in {"exited", "raised"} : config_override_exit(1, how)

SpecConfig == InitConfig /\ [][NextConfig]_vars

\* C26: inside config_override(rc) every non-None field of rc is applied and
\* every None field leaves its attribute unchanged; after the block exits,
\* normally or by an exception of its body, every attribute has the value
\* it had on entry.
C26_OverrideScoped ==
    /\ override[1].pc = "body"
       => \A a \in ConfigAttrs :
            config[a] = IF a \in DOMAIN override[1].rc
                        THEN override[1].rc[a] ELSE override[1].entry[a]
    /\ override[1].pc \in {"exited", "raised"} => config = override[1].entry

C26_Witness ==
    /\ override[1].pc = "raised"
    /\ \E a \in DOMAIN override[1].rc : override[1].rc[a] # override[1].entry[a]
    /\ \E a \in ConfigAttrs : a \notin DOMAIN override[1].rc

\* ------------------------------------------------------------------------
\* Recorder.is_recording and Recorder.capture
\* ------------------------------------------------------------------------
\* Recorder.is_recording: the record thread exists, is alive, and
\* terminate_processing is not set
is_recording ==
    /\ recordPc \notin {"none", "returned"}
    /\ ~terminate_processing

\* what Recorder.capture returns when no session is cached in _capture: it
\* calls CaptureSession.load(capture_dir) unless is_recording, and turns
\* FileNotFoundError into None
Recorder_capture ==
    IF is_recording THEN "None"
    ELSE IF LoadOutcome.result = "FileNotFoundError" THEN "None"
    ELSE LoadOutcome.result

\* C27: Recorder.capture returns None as long as record() has not returned:
\* before the recorder is started, while it records, and between stop()
\* and the end of the shutdown.
C27_CaptureOnlyAfterReturn ==
    Recorder_capture # "None" => recordPc = "returned"

\* ------------------------------------------------------------------------
\* SpecMerge: a recording is written row by row in clock order, then loaded
\* and its actions enumerated
\* ------------------------------------------------------------------------
\* rows of the recording
MaxRaw == 4

\* pointer positions: one place, and one farther away than the double-click
\* distance
MergeXs == {0, double_click_distance + 1}

\* time between two rows: one tick, or more than the double-click interval
ShortGap == 1
LongGap == double_click_interval + 1

\* the rows the listeners write: moves, presses and releases of the left
\* button at either place (a press soon or long after the row before it),
\* of the right button, scrolls, and two keys
MergeShapes ==
    {[name |-> "move", pressed |-> "None", x |-> x, button |-> "left",
      key |-> "a", gap |-> ShortGap] : x \in MergeXs}
    \cup {[name |-> "click", pressed |-> "True", x |-> x, button |-> "left",
           key |-> "a", gap |-> gap] : x \in MergeXs, gap \in {ShortGap, LongGap}}
    \cup {[name |-> "click", pressed |-> "False", x |-> x, button |-> "left",
           key |-> "a", gap |-> ShortGap] : x \in MergeXs}
    \cup {[name |-> "click", pressed |-> pressed, x |-> 0, button |-> "right",
           key |-> "a", gap |-> ShortGap] : pressed \in {"True", "False"}}
    \cup {[name |-> "scroll", pressed |-> "None", x |-> 0, button |-> "left",
           key |-> "a", gap |-> ShortGap]}
    \cup {[name |-> name, pressed |-> "None", x |-> 0, button |-> "left",
           key |-> key, gap |-> ShortGap] :
             name \in {"press", "release"}, key \in {"a", "b"}}

\* the timestamp of the row written last, or of the recording
LastRowTime ==
    IF rows["action"] = <<>> THEN recordings[Len(recordings)]
    ELSE rows["action"][Len(rows["action"])].ts

\* the recording writes one more row
MergeInsert(shape) ==
    /\ load_result = "none"
    /\ Len(rows["action"]) < MaxRaw
    /\ insert_action_event(LastRowTime + shape.gap, shape.name, shape.pressed,
                           shape.x, shape.button, shape.key)

InitMerge ==
    /\ NoRecording
    /\ config = DefaultConfig
    /\ rows = [k \in WriterKinds |-> <<>>]
    /\ db_file = "sqlite"
    /\ recordings = <<RecordingTimestamp>>
    /\ open_sessions = 0
    /\ load_result = "none"
    /\ override = NoOverride

NextMerge ==
    \/ \E shape \in MergeShapes : MergeInsert(shape)
    \/ CaptureSession_load

SpecMerge == InitMerge /\ [][NextMerge]_vars

\* C28: the merging engine is idempotent: the five passes applied to the
\* output of a first application give that output again, for every sequence
\* of raw primitive events.
C28_MergeIdempotent ==
    load_result = "CaptureSession"
    => process_events(process_events(raw_events)) = process_events(raw_events)

C28_Witness ==
    /\ load_result = "CaptureSession"
    /\ Len(raw_events) = 4
    /\ Len(process_events(raw_events)) = 2
    /\ process_events(raw_events)[1].type = "mouse.move"
    /\ process_events(raw_events)[2].type = "mouse.drag"

\* ------------------------------------------------------------------------
\* SpecDisable: rows of a loaded recording are disabled one by one
\* ------------------------------------------------------------------------
\* rows at one place with the left button, and the two keys
DisableShapes ==
    {shape \in MergeShapes :
        shape.x = 0 /\ shape.button = "left" /\ shape.gap = ShortGap
        /\ shape.name # "scroll"}

NextDisable ==
    \/ \E shape \in DisableShapes : MergeInsert(shape)
    \/ CaptureSession_load
    \/ \E i \in 1..MaxRaw : load_result = "CaptureSession" /\ Disable(i)

SpecDisable == InitMerge /\ [][NextDisable]_vars

\* the table with no row disabled
AllEnabled(table) ==
    [i \in 1..Len(table) |-> [table[i] EXCEPT !.disabled = FALSE]]

\* the set of actions actions() enumerates on a table
Enumerated(table) ==
    {actions_of(table)[i] : i \in 1..Len(actions_of(table))}

\* C29: for any set D of disabled action rows, the actions enumerated with
\* D disabled are a subset of the actions enumerated with nothing disabled.
C29_DisablingIsMonotonic ==
    load_result = "CaptureSession"
    => Enumerated(action_events(LoadedId))
         \subseteq Enumerated(AllEnabled(action_events(LoadedId)))

\* ------------------------------------------------------------------------
\* SpecPerf: the shutdown of SpecShutdown with the performance-stats writer
\* ------------------------------------------------------------------------
PerfTasks == ShutdownTasks \cup {"perf_stats_writer"}

InitPerf ==
    InitWith(ShutdownConfig, STOP_SEQUENCES, MaxWrites, PerfTasks, "running")

NextPerf ==
    \/ \E type \in EVENT_TYPES : InboxPut(type, TimestampNow)
    \/ RouterBlock
    \/ RouterStep
    \/ RouterExit
    \/ \E k \in PerfTasks \cap WriterKinds : WriterWrite(k)
    \/ \E k \in PerfTasks \cap WriterKinds : WriterExit(k)
    \/ PerfWrite
    \/ PerfExit
    \/ RecordStarted
    \/ RecordStop
    \/ RecordJoin
    \/ RecordJoinPerf
    \/ RecorderStop

SpecPerf == InitPerf /\ [][NextPerf]_vars

\* C30: terminate_perf_event is set only after the router and every event
\* writer have been joined, and when the performance-stats writer has
\* exited, the tuple of every row an event writer wrote is a
\* performance_stat row and none is left on the perf queue.
C30_PerfWriterDrains ==
    /\ terminate_perf_event => \A t \in Tasks : TaskEnded(t)
    /\ perfPc = "done"
       => /\ perf_q = {}
          /\ \A k \in WriterKinds : \A i \in 1..Len(rows[k]) :
                PerfTuple(k, rows[k][i]) \in perf_stats

C30_Witness ==
    /\ perfPc = "done"
    /\ recordPc = "returned"
    /\ Cardinality(perf_stats) >= 2
    /\ \E t \in perf_stats : t.type = "screen"

\* the position in taken of the event with the given id
TakenAt(id) == CHOOSE i \in 1..Len(taken) : taken[i].id = id

\* the screen event taken last before position j of taken, NoEvent if none
LastScreenBefore(j) ==
    IF \E i \in 1..(j - 1) : taken[i].type = "screen"
    THEN taken[Max({i \in 1..(j - 1) : taken[i].type = "screen"})]
    ELSE NoEvent

\* C31: no screen event is put on the screen writer queue more than once,
\* no two screen events put there have the same timestamp, and every one of
\* them is the last screen event taken before some routed action whose
\* screenshot_timestamp is its timestamp.
C31_OneScreenshotPerAction ==
    /\ \A i, j \in 1..Len(Put("screen")) :
          i # j => /\ Put("screen")[i].id # Put("screen")[j].id
                   /\ Put("screen")[i].ts # Put("screen")[j].ts
    /\ \A s \in 1..Len(Put("screen")) :
          \E a \in 1..Len(Put("action")) :
             /\ Put("action")[a].sts = Put("screen")[s].ts
             /\ LastScreenBefore(TakenAt(Put("action")[a].id)).id
                   = Put("screen")[s].id

\* two actions were routed after one screen event, which was put once
C31_Witness ==
    /\ Len(Put("screen")) = 1
    /\ Len(Put("action")) = 2
    /\ Put("action")[1].sts = Put("action")[2].sts

\* ------------------------------------------------------------------------
\* SpecWindow: read_window_events alone, polling a window that changes its
\* title and its position
\* ------------------------------------------------------------------------
\* what window.get_active_window_data() can return: a dict with the window's
\* title, id, position and state
WindowData ==
    [title : {"A", "B"}, window_id : {"w"}, left : {"0", "9"}, state : {"tree"}]

\* _window_data = window_data; _window_data.pop("state"): the name is an
\* alias, so the key is removed from window_data itself
PopState(window_data) == [window_data EXCEPT !.state = "None"]

\* the title or the window id differs from prev_window_data.get(...)
TitleChanged(window_data) ==
    \/ window_data.title # prev_window_data.dict.title
    \/ window_data.window_id # prev_window_data.dict.window_id

\* window_data as it is when it is compared with prev_window_data
Compared(window_data) ==
    IF TitleChanged(window_data) THEN PopState(window_data) ELSE window_data

\* window_data != prev_window_data
WindowDataDiffers(window_data) ==
    Compared(window_data) # prev_window_data.dict

\* one iteration of the loop of read_window_events for a poll that returns
\* window_data: the log branch, the comparison, the put, the assignment of
\* prev_window_data
WindowPoll(window_data) ==
    /\ readerPc["window_event_reader"] = "run"
    /\ ~terminate_processing
    /\ budget > 0
    /\ budget' = budget - 1
    /\ started_event' = [started_event EXCEPT !["window_event_reader"] = TRUE]
    /\ IF WindowDataDiffers(window_data)
       THEN /\ event_q' = Append(event_q, [Event("window", "") EXCEPT
                                             !.key = Compared(window_data)])
            /\ get_timestamp
       ELSE UNCHANGED <<event_q, perf, last_timestamp, start_time,
                        start_perf_counter>>
    /\ prev_window_data' = [dict |-> Compared(window_data), polled |-> window_data]
    /\ UNCHANGED <<libVars, perfVars, chunked, storage, config, stop_sequences,
                   terminate_processing, readerPc, pending, brConn,
                   ws_server_instance, recordPc, recorderPc, rows, writerPc>>
    /\ UNCHANGED routerVars /\ UNCHANGED stopVars

InitWindow ==
    InitWith(PersistConfig, STOP_SEQUENCES, MaxReads, {"window_event_reader"},
             "running")

NextWindow ==
    \/ \E window_data \in WindowData : WindowPoll(window_data)
    \/ PollReaderExit("window_event_reader")
    \/ RecorderStop

SpecWindow == InitWindow /\ [][NextWindow]_vars

\* C32: the window reader puts a window event for a poll if and only if the
\* polled window data differs from the data the previous poll returned, so
\* one change followed by identical polls gives exactly one event.
C32_EventIffChanged ==
    [][budget' # budget
       => (Len(event_q') = Len(event_q) + 1
             <=> prev_window_data'.polled # prev_window_data.polled)]_vars

\* ------------------------------------------------------------------------
\* SpecInject: the keyboard and mouse callbacks with injected (replayed)
\* events among the real ones
\* ------------------------------------------------------------------------
\* on_press(key, injected=True), run to completion: handle_key is skipped,
\* the stop-sequence code below it is not
OnPressInjected(key) ==
    /\ readerPc["keyboard_event_reader"] = "run"
    /\ ~listener_raised
    /\ budget > 0
    /\ on_press_stop(key)
    /\ budget' = budget - 1
    /\ UNCHANGED <<libVars, auxVars, perfVars, config, stop_sequences, event_q,
                   terminate_processing, recordPc, recorderPc, rows, writerPc>>
    /\ UNCHANGED clockVars /\ UNCHANGED readerVars /\ UNCHANGED routerVars

\* on_move / on_click / on_scroll, run to completion: trigger_action_event
\* unless injected
OnMouse(injected) ==
    /\ readerPc["mouse_event_reader"] = "run"
    /\ budget > 0
    /\ IF injected
       THEN UNCHANGED <<event_q, perf, last_timestamp, start_time,
                        start_perf_counter>>
       ELSE /\ event_q' = Append(event_q, Event("action", ""))
            /\ get_timestamp
    /\ budget' = budget - 1
    /\ UNCHANGED <<libVars, auxVars, perfVars, config, stop_sequences,
                   terminate_processing, recordPc, recorderPc, rows, writerPc>>
    /\ UNCHANGED readerVars /\ UNCHANGED routerVars /\ UNCHANGED stopVars

InitInject ==
    \E seqs \in StopConfigs :
        InitWith(DefaultConfig, seqs, MaxPresses,
                 {"keyboard_event_reader", "mouse_event_reader"}, "running")

NextInject ==
    \/ \E key \in Keys : OnPress(key)
    \/ \E key \in Keys : OnPressInjected(key)
    \/ \E injected \in BOOLEAN : OnMouse(injected)

SpecInject == InitInject /\ [][NextInject]_vars

\* C33: a callback either puts exactly one action event on the inbox (the
\* event was not injected) or puts none and leaves the stop-sequence indices
\* and the stop flag as they were (the event was injected).
C33_InjectedHasNoEffect ==
    [][budget' # budget
       => \/ Len(event_q') = Len(event_q) + 1
          \/ /\ event_q' = event_q
             /\ stop_sequence_indices' = stop_sequence_indices
             /\ stop_sequence_detected' = stop_sequence_detected]_vars

\* ---------------------------------------------------------------------
\* Two recordings made one after the other in the same process
\* (tests/test_performance.py test_recorder_reuse).  stop_sequence_detected
\* is a module global and survives the first recording; everything else
\* belongs to the record() call and is created anew.

ReuseKeys == {"ctrl_l", "x"}

\* the second Recorder: __init__ creates a new terminate event, __enter__
\* starts record() on a thread, which creates a new event queue and starts
\* the keyboard reader with a fresh stop_sequence_indices list
RecordAgain ==
    /\ recordPc = "returned"
    /\ Len(recordings) = 1
    /\ recordings' = Append(recordings, RecordingTimestamp)
    /\ recordPc' = "wait_started"
    /\ recorderPc' = "in"
    /\ terminate_processing' = FALSE
    /\ terminate_perf_event' = FALSE
    /\ event_q' = <<>>
    /\ readerPc' = [readerPc EXCEPT !["keyboard_event_reader"] = "start"]
    /\ started_event' = [t \in AllTasks |-> FALSE]
    /\ stop_sequence_indices' = [i \in 1..Len(stop_sequences) |-> 0]
    /\ listener_raised' = FALSE
    /\ presses' = <<>>
    /\ budget' = MaxPresses
    /\ UNCHANGED <<stop_sequence_detected, config, stop_sequences, pending,
                   brConn, ws_server_instance, rows, writerPc, db_file,
                   open_sessions, load_result, override, perf_q, perf_stats,
                   perfPc, auxVars>>
    /\ UNCHANGED clockVars /\ UNCHANGED routerVars

InitReuse ==
    InitWith(DefaultConfig, STOP_SEQUENCES, MaxPresses,
             {"keyboard_event_reader"}, "created")

NextReuse ==
    \/ ListenerStart("keyboard_event_reader")
    \/ \E key \in ReuseKeys : OnPress(key)
    \/ ListenerStop("keyboard_event_reader")
    \/ RecordStarted
    \/ RecordStop
    \/ RecordInterrupt
    \/ RecorderStop
    \/ RecordJoin
    \/ RecordAgain

SpecReuse == InitReuse /\ [][NextReuse]_vars

\* the keys pressed during this recording contain a complete stop sequence
OwnStopSequence ==
    \E i \in 1..Len(stop_sequences) :
        \E k \in 0..(Len(presses) - Len(stop_sequences[i])) :
            \A j \in 1..Len(stop_sequences[i]) :
                Canonical(presses[k + j]) = stop_sequences[i][j]

\* C34: a stop-sequence detection of an earlier recording never stops a
\* later one: record() enters its wait-for-stop loop with
\* stop_sequence_detected false, and while it is in the loop the flag is set
\* only when the keys of this recording contain a complete stop sequence (the
\* other ways out of the loop are the terminate flag and an interrupt).
C34_EarlierDetectionNeverStops ==
    [][/\ (recordPc = "wait_started" /\ recordPc' = "running")
             => ~stop_sequence_detected'
       /\ (recordPc' = "running" /\ stop_sequence_detected')
             => OwnStopSequence']_vars

\* the second recording is about to enter its loop while the flag left by the
\* first one is still set
C34_Witness ==
    /\ Len(recordings) = 2
    /\ recordPc = "wait_started"
    /\ started_event["keyboard_event_reader"]
    /\ stop_sequence_detected
    /\ presses # <<>>
    /\ ~OwnStopSequence

\* C35: every time on_press indexes a stop sequence with its progress index,
\* the index is within 0..len(sequence)-1, also for the presses that arrive
\* after a stop sequence has been completed and before the listener stops.
C35_IndexInRangeWhenUsed ==
    [][presses' # presses =>
         \A i \in 1..Len(stop_sequences) :
             stop_sequence_indices[i] \in 0..(Len(stop_sequences[i]) - 1)]_vars

\* C36: at every boundary between two iterations of the router, each of the
\* counters num_action_events, num_screen_events, num_window_events,
\* num_browser_events and num_video_events equals the number of events the
\* router has put on the writer queue of that kind.
C36_CountersMatchPuts ==
    \A k \in WriterKinds : num_events[k] = Len(Put(k))

\* C37: when RECORD_VIDEO is off, no event is ever put on the video queue,
\* whatever the value of RECORD_FULL_VIDEO: every frame put on the video
\* queue has a video writer that consumes it.
C37_NoVideoPutWithoutWriter ==
    ~config.RECORD_VIDEO => Put("screen/video") = <<>>

\* ---------------------------------------------------------------------
\* Two config_override contexts in progress at once: nested in one thread,
\* or on the record threads of two Recorders (Recorder._run_record), which
\* enter and leave in any order.

\* the RecordingConfig values of the two contexts: any of capture_video and
\* capture_window_data given, every other field None
OverlapConfigs ==
    {rc \in RecordingConfigs :
        DOMAIN rc \subseteq {"RECORD_VIDEO", "RECORD_WINDOW_DATA"}}

InitOverlap ==
    /\ InitConfig
    /\ config = DefaultConfig

NextOverlap ==
    \/ \E c \in Contexts : \E recording_config \in OverlapConfigs :
          config_override_enter(c, recording_config)
    \/ \E c \in Contexts : \E how \in {"exited", "raised"} :
          config_override_exit(c, how)

SpecOverlap == InitOverlap /\ [][NextOverlap]_vars

\* C38: once two overlapping config_override contexts have both been left,
\* every config attribute has the value it had before the first of them was
\* entered.
C38_OverlappingOverridesRestore ==
    (\A c \in Contexts : override[c].pc \in {"exited", "raised"})
        => config = DefaultConfig

\* ---------------------------------------------------------------------
\* ChunkedVideoWriter (video.py)

MaxChunkCalls == 3
MaxChunkTs == 4

\* the chunk_duration the writer was constructed with, in the unit of the
\* frame timestamps
chunk_duration == 2

\* VideoWriter(output_path): nothing is opened before the first frame
VideoWriter(output_path) ==
    [output_path |-> output_path, container |-> FALSE, frames |-> <<>>]

\* _current_writer.write_frame (VideoWriter.write_frame): the first call opens the container; the frame is
\* encoded as a key frame when force_key_frame is set
current_writer_write_frame(w, timestamp, force_key_frame) ==
    [w EXCEPT !.container = TRUE,
              !.frames = Append(@, [timestamp |-> timestamp,
                                    key |-> force_key_frame])]

\* _current_writer.close (VideoWriter.close): nothing when it is not open; otherwise the last frame
\* is written once more as a key frame and the container is closed
current_writer_close(w) ==
    IF ~w.container THEN w
    ELSE [w EXCEPT !.container = FALSE,
                   !.frames = Append(@, [timestamp |-> w.frames[Len(w.frames)].timestamp,
                                         key |-> TRUE])]

\* a _start_new_chunk that leaves the writer of the previous chunk open
_start_new_chunkKeepOpen(ch, timestamp) ==
    [ch EXCEPT !.current_writer = Len(ch.writers) + 1,
               !.writers = Append(ch.writers, VideoWriter(ch.chunk_index)),
               !.chunk_start_time = <<timestamp>>,
               !.chunk_index = ch.chunk_index + 1]

\* ChunkedVideoWriter._start_new_chunk
_start_new_chunk(ch, timestamp) ==
    LET writers == IF ch.current_writer # 0
                   THEN [ch.writers EXCEPT ![ch.current_writer] = current_writer_close(@)]
                   ELSE ch.writers
    IN  [ch EXCEPT !.current_writer = Len(writers) + 1,
                   !.writers = Append(writers, VideoWriter(ch.chunk_index)),
                   !.chunk_start_time = <<timestamp>>,
                   !.chunk_index = ch.chunk_index + 1]

needs_new_chunk(ch, timestamp) ==
    \/ ch.current_writer = 0
    \/ /\ ch.chunk_start_time # <<>>
       /\ timestamp - ch.chunk_start_time[1] >= chunk_duration

\* ChunkedVideoWriter.write_frame(image, timestamp, force_key_frame)
ChunkedWriteFrame(timestamp, force_key_frame) ==
    /\ chunked.calls < MaxChunkCalls
    /\ LET new == needs_new_chunk(chunked, timestamp)
           ch == IF new THEN _start_new_chunk(chunked, timestamp) ELSE chunked
       IN  chunked' =
             [ch EXCEPT !.writers[ch.current_writer] =
                            current_writer_write_frame(@, timestamp, new \/ force_key_frame),
                        !.calls = @ + 1]
    /\ UNCHANGED <<prev_window_data, storage, config, rows>>
    /\ UNCHANGED libVars /\ UNCHANGED recorderVars /\ UNCHANGED perfVars

\* ChunkedVideoWriter.close()
ChunkedClose ==
    /\ chunked.current_writer # 0
    /\ chunked' = [chunked EXCEPT !.writers[chunked.current_writer] = current_writer_close(@),
                                  !.current_writer = 0]
    /\ UNCHANGED <<prev_window_data, storage, config, rows>>
    /\ UNCHANGED libVars /\ UNCHANGED recorderVars /\ UNCHANGED perfVars

InitChunk ==
    /\ InitConfig
    /\ config = DefaultConfig

NextChunk ==
    \/ \E timestamp \in 0..MaxChunkTs : \E force_key_frame \in BOOLEAN :
          ChunkedWriteFrame(timestamp, force_key_frame)
    \/ ChunkedClose

SpecChunk == InitChunk /\ [][NextChunk]_vars

\* the chunk writers whose container is open
OpenChunks(ch) == {w \in 1..Len(ch.writers) : ch.writers[w].container}

\* C39: at most one chunk writer is open at any time; the chunk files are
\* numbered consecutively from 0 in creation order, so none is used twice;
\* a write_frame starts a new chunk exactly when no chunk is open or the
\* frame's timestamp is chunk_duration or more after the first frame of the
\* current chunk; and the first frame of every chunk is a key frame.
C39_ChunkRotation ==
    [][/\ Cardinality(OpenChunks(chunked')) <= 1
       /\ \A w \in 1..Len(chunked'.writers) :
             /\ chunked'.writers[w].output_path = w - 1
             /\ chunked'.writers[w].frames # <<>>
                   => chunked'.writers[w].frames[1].key
       /\ chunked'.calls # chunked.calls =>
             LET cur == chunked'.writers[chunked'.current_writer]
                 timestamp == cur.frames[Len(cur.frames)].timestamp
             IN  (Len(chunked'.writers) = Len(chunked.writers) + 1)
                   <=> \/ OpenChunks(chunked) = {}
                       \/ \E w \in OpenChunks(chunked) :
                             timestamp - chunked.writers[w].frames[1].timestamp
                                >= chunk_duration]_vars

\* a chunk was rotated by time, a later frame with an earlier timestamp went
\* into the second chunk, and the writer was closed
C39_Witness ==
    /\ Len(chunked.writers) = 2
    /\ chunked.current_writer = 0
    /\ Len(chunked.writers[1].frames) >= 2
    /\ Len(chunked.writers[2].frames) >= 3
    /\ chunked.writers[2].frames[2].timestamp < chunked.writers[2].frames[1].timestamp

\* ---------------------------------------------------------------------
\* SQLiteStorage (storage/sqlite.py): the events table

MaxStorageRows == 4

StorageTimes == {1, 2}

\* the events written: a key press, and a typed-text composite with its
\* key press and key release as children
KeyDownEvent(timestamp) ==
    [timestamp |-> timestamp, type |-> "KEY_DOWN", children |-> <<>>]

KeyUpEvent(timestamp) ==
    [timestamp |-> timestamp, type |-> "KEY_UP", children |-> <<>>]

KeyTypeEvent(timestamp) ==
    [timestamp |-> timestamp, type |-> "KEY_TYPE",
     children |-> <<KeyDownEvent(timestamp), KeyUpEvent(timestamp)>>]

StorageEvents ==
    {KeyDownEvent(t) : t \in StorageTimes} \cup {KeyTypeEvent(t) : t \in StorageTimes}

\* the rows one call inserts: the event itself and its children
RowsOf(event) == 1 + Len(event.children)

\* INSERT INTO events (timestamp, type, data, parent_id): AUTOINCREMENT
\* gives the row an id above every id used before
InsertEvent(st, event, parent_id) ==
    [rows |-> Append(st.rows, [id |-> st.lastrowid + 1,
                               timestamp |-> event.timestamp,
                               type |-> event.type,
                               parent_id |-> parent_id]),
     lastrowid |-> st.lastrowid + 1]

\* the children[1..n] of an event inserted with parent_id = event_id
RECURSIVE InsertChildren(_, _, _, _)
InsertChildren(st, children, n, event_id) ==
    IF n = 0 THEN st
    ELSE InsertEvent(InsertChildren(st, children, n - 1, event_id),
                     children[n], <<event_id>>)

\* SQLiteStorage.write_event(event, parent_id)
write_event(st, event, parent_id) ==
    LET inserted == InsertEvent(st, event, parent_id)
    IN  InsertChildren(inserted, event.children, Len(event.children),
                       inserted.lastrowid)

\* SQLiteStorage.write_events(events[1..n]): every event with parent_id NULL
RECURSIVE write_events(_, _, _)
write_events(st, events, n) ==
    IF n = 0 THEN st
    ELSE write_event(write_events(st, events, n - 1), events[n], <<>>)

\* the WHERE clause of delete_events; a filter that is None is <<>>
Matches(row, start, end, event_types) ==
    /\ start # <<>> => row.timestamp >= start[1]
    /\ end # <<>> => row.timestamp <= end[1]
    /\ event_types # {} => row.type \in event_types

RECURSIVE Remaining(_, _, _, _, _)
Remaining(rs, n, start, end, event_types) ==
    IF n = 0 THEN <<>>
    ELSE LET before == Remaining(rs, n - 1, start, end, event_types)
         IN  IF Matches(rs[n], start, end, event_types)
             THEN before ELSE Append(before, rs[n])

\* SQLiteStorage.delete_events(start_time, end_time, event_types)
delete_events(st, start, end, event_types) ==
    [st EXCEPT !.rows = Remaining(st.rows, Len(st.rows), start, end,
                                  event_types)]

StorageWriteEvent(event) ==
    /\ storage.lastrowid + RowsOf(event) <= MaxStorageRows
    /\ storage' = write_event(storage, event, <<>>)
    /\ UNCHANGED <<prev_window_data, chunked, config, rows>>
    /\ UNCHANGED libVars /\ UNCHANGED recorderVars /\ UNCHANGED perfVars

StorageWriteEvents(events) ==
    /\ storage.lastrowid + RowsOf(events[1]) + RowsOf(events[2]) <= MaxStorageRows
    /\ storage' = write_events(storage, events, Len(events))
    /\ UNCHANGED <<prev_window_data, chunked, config, rows>>
    /\ UNCHANGED libVars /\ UNCHANGED recorderVars /\ UNCHANGED perfVars

StorageDeleteEvents(start, end, event_types) ==
    /\ storage' = delete_events(storage, start, end, event_types)
    /\ UNCHANGED <<prev_window_data, chunked, config, rows>>
    /\ UNCHANGED libVars /\ UNCHANGED recorderVars /\ UNCHANGED perfVars

InitStorage ==
    /\ InitConfig
    /\ config = DefaultConfig

NextStorage ==
    \/ \E event \in StorageEvents : StorageWriteEvent(event)
    \/ \E e1, e2 \in StorageEvents : StorageWriteEvents(<<e1, e2>>)
    \/ \E start, end \in {<<>>} \cup {<<t>> : t \in StorageTimes} :
          \E event_types \in SUBSET {"KEY_DOWN", "KEY_UP", "KEY_TYPE"} :
             StorageDeleteEvents(start, end, event_types)

SpecStorage == InitStorage /\ [][NextStorage]_vars

\* C40: every row of the events table with a non-null parent_id refers to a
\* row that exists and is its composite; delete_events never leaves a child
\* whose parent row has been deleted.
C40_ChildrenHaveParents ==
    \A c \in 1..Len(storage.rows) :
        storage.rows[c].parent_id # <<>> =>
            \E p \in 1..Len(storage.rows) :
                /\ storage.rows[p].id = storage.rows[c].parent_id[1]
                /\ storage.rows[p].type = "KEY_TYPE"

====
